---- MODULE Spec2Model ----
(***************************************************************************)
(* Model of the student mental-health diagnoser: the feature mapping,      *)
(* risk scoring, risk-factor rules, recommendation engine and label        *)
(* banding of src/api/preprocessor.py, src/api/predictor.py,               *)
(* src/api/main.py and src/app/streamlit_app.py.                           *)
(*                                                                         *)
(* Numbers.  Python floats are held in fixed point.  A questionnaire value *)
(* or a feature value v is held as the integer 10*v (tenths): 5.5 hours is *)
(* 55, a CGPA of 5.9 is 59.  The risk score, a sum of products of a value  *)
(* (tenths) and a weight (tenths), is held in hundredths: 2.8 is 280.  A   *)
(* probability is the rational probability/ProbDen and is compared with    *)
(* the decimal thresholds of the code by cross multiplication.  The        *)
(* arithmetic is exact: binary rounding of IEEE doubles is not modelled.   *)
(*                                                                         *)
(* Raw answers.  A Python dict of answers is the record [num, str]: num    *)
(* maps the keys that hold a number to it, str maps the keys that hold a   *)
(* string to it; a key in neither is absent from the dict.                 *)
(*                                                                         *)
(* Artifacts.  The models directory is a function from the names of the    *)
(* files it holds to their contents.  A fitted scaler or classifier is     *)
(* opaque but for the number of features it was fitted on: handing it a    *)
(* row of another width raises ValueError.  The label encoders and the     *)
(* model metadata, which predict never reads, are left out.                *)
(***************************************************************************)
EXTENDS Integers, Sequences, FiniteSets, TLC

VARIABLES
    models_dir,       \* the models directory: file name -> contents
    preprocessor,     \* the DataPreprocessor object (its three lookup tables) or None
    predictor,        \* the MentalHealthPredictor object or None
    data,             \* the raw answers of the request in hand
    pc,               \* position of the request in the pipeline
    processed,        \* result of preprocess (a feature mapping)
    feature_vector,   \* the row predict hands to the scaler
    prediction_result,\* result of predict: [prediction, probability]
    risk_factors,     \* result of analyze_risk_factors
    recommendations,  \* result of generate_recommendations
    response,         \* the record returned: a diagnosis or a health report
    call,             \* a direct call of one method: its arguments and result
    requests,         \* the locals of each of the requests served side by side
    session           \* st.session_state of one questionnaire session

vars == <<models_dir, preprocessor, predictor, data, pc, processed,
          feature_vector, prediction_result, risk_factors, recommendations,
          response, call, requests, session>>

(***************************************************************************)
(* Bounds of the model.                                                    *)
(***************************************************************************)
\* Probabilities are the rationals 0/ProbDen .. ProbDen/ProbDen.
ProbDen == 10
\* How many answers of a base questionnaire are varied at once.
MaxSwept == 1

None == [none |-> TRUE]

(***************************************************************************)
(* Python dict helpers.                                                    *)
(***************************************************************************)
\* m.get(k, default) on a table with string keys.
DictGet(m, k, default) == IF k \in DOMAIN m THEN m[k] ELSE default

\* key in data
Has(d, f) == f \in (DOMAIN d.num) \cup (DOMAIN d.str)

Without(m, k) == [x \in (DOMAIN m) \ {k} |-> m[x]]

\* The elements of a list.
Range(seq) == { seq[i] : i \in 1..Len(seq) }

(***************************************************************************)
(* DataPreprocessor.__init__                                               *)
(***************************************************************************)
sleep_mapping ==
    [k \in {"Less than 5 hours", "5-6 hours", "7-8 hours",
            "More than 8 hours", "Others"} |->
        CASE k = "Less than 5 hours" -> 40
          [] k = "5-6 hours"         -> 55
          [] k = "7-8 hours"         -> 75
          [] k = "More than 8 hours" -> 90
          [] k = "Others"            -> 60]

diet_mapping ==
    [k \in {"Unhealthy", "Moderate", "Healthy", "Others"} |->
        CASE k = "Unhealthy" -> 10
          [] k = "Moderate"  -> 20
          [] k = "Healthy"   -> 30
          [] k = "Others"    -> 20]

default_encoders ==
       ("Gender" :>
            [k \in {"Male", "Female", "Other"} |->
                CASE k = "Male" -> 0 [] k = "Female" -> 10 [] k = "Other" -> 20])
    @@ ("Profession" :>
            [k \in {"Student", "Employee", "Self-employed", "Unemployed", "Other"} |->
                CASE k = "Student" -> 0 [] k = "Employee" -> 10
                  [] k = "Self-employed" -> 20 [] k = "Unemployed" -> 30
                  [] k = "Other" -> 40])
    @@ ("Have you ever had suicidal thoughts ?" :>
            [k \in {"No", "Yes"} |-> IF k = "Yes" THEN 10 ELSE 0])
    @@ ("Family History of Mental Illness" :>
            [k \in {"No", "Yes"} |-> IF k = "Yes" THEN 10 ELSE 0])

DataPreprocessorInit ==
    [sleep_mapping |-> sleep_mapping,
     diet_mapping |-> diet_mapping,
     default_encoders |-> default_encoders]

(***************************************************************************)
(* MentalHealthPredictor._load_models: the default feature columns.        *)
(***************************************************************************)
DefaultFeatureColumns ==
    << "Age", "Academic Pressure", "Work Pressure", "CGPA", "Study Satisfaction",
       "Job Satisfaction", "Work/Study Hours", "Financial Stress", "Sleep_Hours",
       "Diet_Score", "Risk_Score", "Gender_encoded", "Profession_encoded",
       "Have you ever had suicidal thoughts ?_encoded",
       "Family History of Mental Illness_encoded" >>

model_files ==
    << "mental_health_model_20250926_165109.pkl", "logistic_regression_model.pkl",
       "logistic_regression_optimized.pkl" >>

scaler_files ==
    << "scaler_20250926_165109.pkl", "scaler_optimized.pkl", "scaler.pkl" >>

feature_files ==
    << "feature_columns_20250926_165109.pkl", "feature_columns_optimized.csv",
       "feature_columns.csv" >>

\* The candidates of a list that exist in the directory, in the list's order:
\* the loop loads the first and breaks.
Existing(dir, files) ==
    LET exists(f) == f \in DOMAIN dir IN SelectSeq(files, exists)

\* _load_models raises FileNotFoundError (logged and re-raised) when no
\* candidate model file or no candidate scaler file exists.
LoadModelsRaises(dir) ==
    Existing(dir, model_files) = << >> \/ Existing(dir, scaler_files) = << >>

\* _load_models that goes on without a scaler.
LoadModelsRaisesModelOnly(dir) == Existing(dir, model_files) = << >>

\* The predictor __init__ leaves behind when _load_models does not raise.
MentalHealthPredictorInit(dir) ==
    [model |-> IF Existing(dir, model_files) = << >> THEN None
               ELSE dir[Head(Existing(dir, model_files))],
     scaler |-> IF Existing(dir, scaler_files) = << >> THEN None
                ELSE dir[Head(Existing(dir, scaler_files))],
     feature_columns |->
        IF Existing(dir, feature_files) = << >> THEN DefaultFeatureColumns
        ELSE dir[Head(Existing(dir, feature_files))].columns]

(***************************************************************************)
(* DataPreprocessor.preprocess                                             *)
(***************************************************************************)
numerical_features ==
    << "age", "academic_pressure", "work_pressure", "cgpa",
       "study_satisfaction", "job_satisfaction", "work_study_hours",
       "financial_stress" >>

feature_mapping ==
    [f \in {numerical_features[i] : i \in 1..Len(numerical_features)} |->
        CASE f = "age"                -> "Age"
          [] f = "academic_pressure"  -> "Academic Pressure"
          [] f = "work_pressure"      -> "Work Pressure"
          [] f = "cgpa"               -> "CGPA"
          [] f = "study_satisfaction" -> "Study Satisfaction"
          [] f = "job_satisfaction"   -> "Job Satisfaction"
          [] f = "work_study_hours"   -> "Work/Study Hours"
          [] f = "financial_stress"   -> "Financial Stress"]

NumericKeys == Range(numerical_features)

\* The strings float() parses, with the number each denotes (tenths).
NumericStrings == ("3" :> 30) @@ ("2.5" :> 25)

\* float(s) of a string: defined for the numeric strings, raises otherwise.
FloatOfStrRaises(s) == s \notin DOMAIN NumericStrings

\* float(data[f]) raises: the key is present and holds a non-numeric string.
FloatRaises(d, f) == f \in DOMAIN d.str /\ FloatOfStrRaises(d.str[f])

\* float(data[f]) for a present key on which float() does not raise.
Float(d, f) == IF f \in DOMAIN d.num THEN d.num[f] ELSE NumericStrings[d.str[f]]

\* The table lookup with 0 for a value the table does not list.
TableGetDefaultZero(table, d, key, default_key, default_value) ==
    IF key \in DOMAIN d.str THEN DictGet(table, d.str[key], 0)
    ELSE IF key \in DOMAIN d.num THEN 0
    ELSE DictGet(table, default_key, 0)

\* self.<table>.get(data.get(key, default_key), default_value): a number held
\* under the key is no key of a table of strings.
TableGet(table, d, key, default_key, default_value) ==
    IF key \in DOMAIN d.str THEN DictGet(table, d.str[key], default_value)
    ELSE IF key \in DOMAIN d.num THEN default_value
    ELSE DictGet(table, default_key, default_value)

\* The weighted sum of _calculate_risk_score, in hundredths, over a mapping
\* whose values are numbers; the dict.get defaults are those of the code
\* (0, 7.5, 2).
CalculateRiskScoreWrongWeight(p) ==
      DictGet(p, "Academic Pressure", 0) * 2
    + DictGet(p, "Financial Stress", 0) * 2
    + (50 - DictGet(p, "Sleep_Hours", 75)) * 1
    + (40 - DictGet(p, "Diet_Score", 20)) * 1
    + DictGet(p, "Have you ever had suicidal thoughts ?_encoded", 0) * 1
    + DictGet(p, "Family History of Mental Illness_encoded", 0) * 3

\* The weighted sum with the sleep and diet terms counted as hours and score
\* above the reference instead of below it.
CalculateRiskScoreSignsFlipped(p) ==
      DictGet(p, "Academic Pressure", 0) * 2
    + DictGet(p, "Financial Stress", 0) * 2
    + (DictGet(p, "Sleep_Hours", 75) - 50) * 1
    + (DictGet(p, "Diet_Score", 20) - 40) * 1
    + DictGet(p, "Have you ever had suicidal thoughts ?_encoded", 0) * 3
    + DictGet(p, "Family History of Mental Illness_encoded", 0) * 1

CalculateRiskScore(p) ==
      DictGet(p, "Academic Pressure", 0) * 2
    + DictGet(p, "Financial Stress", 0) * 2
    + (50 - DictGet(p, "Sleep_Hours", 75)) * 1
    + (40 - DictGet(p, "Diet_Score", 20)) * 1
    + DictGet(p, "Have you ever had suicidal thoughts ?_encoded", 0) * 3
    + DictGet(p, "Family History of Mental Illness_encoded", 0) * 1

\* The keys _calculate_risk_score reads.
RiskScoreKeys ==
    {"Academic Pressure", "Financial Stress", "Sleep_Hours", "Diet_Score",
     "Have you ever had suicidal thoughts ?_encoded",
     "Family History of Mental Illness_encoded"}

\* A mapping whose values may be other than numbers, held as raw answers
\* are: num the keys with a number, str the keys with any other object.
\* The arithmetic raises TypeError when a key it reads holds a non-number.
RiskScoreFails(m) == \E k \in RiskScoreKeys : k \in DOMAIN m.str

\* _calculate_risk_score whose handler returns -0.01 in place of 0.0.
CalculateRiskScoreOrRaise(m) ==
    IF RiskScoreFails(m) THEN -1 ELSE CalculateRiskScore(m.num)

\* _calculate_risk_score: the try block and its handler, which returns 0.0.
CalculateRiskScoreOrZero(m) ==
    IF RiskScoreFails(m) THEN 0 ELSE CalculateRiskScore(m.num)

\* The numeric passthrough with a missing answer stored as 1.0.
NumericPartDefaultOne(d) ==
    [n \in {feature_mapping[numerical_features[i]] :
                i \in 1..Len(numerical_features)} |->
        LET f == CHOOSE g \in DOMAIN feature_mapping : feature_mapping[g] = n
        IN  IF Has(d, f) THEN Float(d, f) ELSE 10]

\* The numeric passthrough loop of preprocess.
NumericPart(d) ==
    [n \in {feature_mapping[numerical_features[i]] :
                i \in 1..Len(numerical_features)} |->
        LET f == CHOOSE g \in DOMAIN feature_mapping : feature_mapping[g] = n
        IN  IF Has(d, f) THEN Float(d, f) ELSE 0]

\* DerivedPart with the sleep feature stored under a misspelt name.
DerivedPartMisnamed(self, d) ==
       ("Sleep Hours" :> TableGet(self.sleep_mapping, d, "sleep_duration", "7-8 hours", 75))
    @@ ("Diet_Score" :> TableGet(self.diet_mapping, d, "dietary_habits", "Moderate", 20))
    @@ ("Gender_encoded" :>
            TableGet(self.default_encoders["Gender"], d, "gender", "Male", 0))
    @@ ("Profession_encoded" :>
            TableGet(self.default_encoders["Profession"], d, "profession", "Student", 0))
    @@ ("Have you ever had suicidal thoughts ?_encoded" :>
            TableGet(self.default_encoders["Have you ever had suicidal thoughts ?"], d, "suicidal_thoughts", "No", 0))
    @@ ("Family History of Mental Illness_encoded" :>
            TableGet(self.default_encoders["Family History of Mental Illness"], d, "family_history", "No", 0))

\* The derived and encoded features of preprocess, before the risk score.
DerivedPart(self, d) ==
       ("Sleep_Hours" :> TableGet(self.sleep_mapping, d, "sleep_duration", "7-8 hours", 75))
    @@ ("Diet_Score" :> TableGet(self.diet_mapping, d, "dietary_habits", "Moderate", 20))
    @@ ("Gender_encoded" :>
            TableGet(self.default_encoders["Gender"], d, "gender", "Male", 0))
    @@ ("Profession_encoded" :>
            TableGet(self.default_encoders["Profession"], d, "profession", "Student", 0))
    @@ ("Have you ever had suicidal thoughts ?_encoded" :>
            TableGet(self.default_encoders["Have you ever had suicidal thoughts ?"], d, "suicidal_thoughts", "No", 0))
    @@ ("Family History of Mental Illness_encoded" :>
            TableGet(self.default_encoders["Family History of Mental Illness"], d, "family_history", "No", 0))

\* preprocess raises (and re-raises) when float() fails on a present numeric key.
PreprocessRaises(d) ==
    \E i \in 1..Len(numerical_features) : FloatRaises(d, numerical_features[i])

\* The mapping preprocess returns when it does not raise.
PreprocessValue(self, d) ==
    LET partial == NumericPart(d) @@ DerivedPart(self, d)
    IN  partial @@ ("Risk_Score" :> CalculateRiskScoreOrZero([num |-> partial, str |-> << >>]))

(***************************************************************************)
(* DataPreprocessor.analyze_risk_factors                                   *)
(*                                                                         *)
(* A factor name is held as its sequence of words, so that the substring   *)
(* tests of generate_recommendations are computed, not tabulated.  The     *)
(* description is the f-string's template; its {value} is the value field. *)
(***************************************************************************)
\* data.get(key, 0) where the key holds a number or is absent.
NumGet(d, key, default) == IF key \in DOMAIN d.num THEN d.num[key] ELSE default

\* data.get(key, default) where a string is expected; a number held under
\* the key equals none of the strings it is compared with.
StrGet(d, key, default) ==
    IF key \in DOMAIN d.str THEN d.str[key]
    ELSE IF key \in DOMAIN d.num THEN "<number>"
    ELSE default

\* The keys whose value is compared with a number: a string there makes the
\* comparison raise TypeError, which the handler turns into [].
ComparedKeys ==
    {"academic_pressure", "financial_stress", "work_pressure",
     "study_satisfaction", "job_satisfaction", "cgpa"}

AnalyzeRaises(d) == \E k \in ComparedKeys : k \in DOMAIN d.str

RiskFactor(name, value, impact, description) ==
    [factor |-> name, value |-> value, impact |-> impact, description |-> description]

\* "High" if level >= 5 else "Medium"
PressureImpact(level) == IF level >= 50 THEN "High" ELSE "Medium"

AcademicPressureRule(d) ==
    LET academic_pressure == NumGet(d, "academic_pressure", 0)
    IN  IF academic_pressure >= 40
        THEN << RiskFactor(<<"High", "Academic", "Pressure">>, academic_pressure,
                           PressureImpact(academic_pressure),
                           "Academic pressure level of {value}/5 indicates significant stress") >>
        ELSE << >>

FinancialStressRule(d) ==
    LET financial_stress == NumGet(d, "financial_stress", 0)
    IN  IF financial_stress >= 40
        THEN << RiskFactor(<<"High", "Financial", "Stress">>, financial_stress,
                           PressureImpact(financial_stress),
                           "Financial stress level of {value}/5 indicates significant financial pressure") >>
        ELSE << >>

SleepRule(d) ==
    LET sleep_duration == StrGet(d, "sleep_duration", "7-8 hours")
    IN  IF sleep_duration \in {"Less than 5 hours", "5-6 hours"}
        THEN << RiskFactor(<<"Insufficient", "Sleep">>, sleep_duration,
                           IF sleep_duration = "Less than 5 hours" THEN "High" ELSE "Medium",
                           "Sleep duration of {value} may contribute to mental health issues") >>
        ELSE << >>

DietRule(d) ==
    LET dietary_habits == StrGet(d, "dietary_habits", "Moderate")
    IN  IF dietary_habits = "Unhealthy"
        THEN << RiskFactor(<<"Unhealthy", "Diet">>, dietary_habits, "Medium",
                           "Unhealthy dietary habits may negatively impact mental health") >>
        ELSE << >>

\* The suicidal-thoughts rule with the impact of the pressure rules.
SuicidalThoughtsRuleHigh(d) ==
    LET suicidal_thoughts == StrGet(d, "suicidal_thoughts", "No")
    IN  IF suicidal_thoughts = "Yes"
        THEN << RiskFactor(<<"History", "of", "Suicidal", "Thoughts">>, suicidal_thoughts,
                           "High",
                           "Previous suicidal thoughts indicate high risk and require immediate attention") >>
        ELSE << >>

SuicidalThoughtsRule(d) ==
    LET suicidal_thoughts == StrGet(d, "suicidal_thoughts", "No")
    IN  IF suicidal_thoughts = "Yes"
        THEN << RiskFactor(<<"History", "of", "Suicidal", "Thoughts">>, suicidal_thoughts,
                           "Critical",
                           "Previous suicidal thoughts indicate high risk and require immediate attention") >>
        ELSE << >>

FamilyHistoryRule(d) ==
    LET family_history == StrGet(d, "family_history", "No")
    IN  IF family_history = "Yes"
        THEN << RiskFactor(<<"Family", "History", "of", "Mental", "Illness">>, family_history,
                           "Medium",
                           "Family history of mental illness increases risk of developing similar conditions") >>
        ELSE << >>

\* The work-pressure rule with the threshold taken strictly.
WorkPressureRuleStrict(d) ==
    LET work_pressure == NumGet(d, "work_pressure", 0)
    IN  IF work_pressure > 40
        THEN << RiskFactor(<<"High", "Work", "Pressure">>, work_pressure,
                           PressureImpact(work_pressure),
                           "Work pressure level of {value}/5 indicates significant workplace stress") >>
        ELSE << >>

WorkPressureRule(d) ==
    LET work_pressure == NumGet(d, "work_pressure", 0)
    IN  IF work_pressure >= 40
        THEN << RiskFactor(<<"High", "Work", "Pressure">>, work_pressure,
                           PressureImpact(work_pressure),
                           "Work pressure level of {value}/5 indicates significant workplace stress") >>
        ELSE << >>

StudySatisfactionRule(d) ==
    LET study_satisfaction == NumGet(d, "study_satisfaction", 0)
    IN  IF study_satisfaction <= 20
        THEN << RiskFactor(<<"Low", "Study", "Satisfaction">>, study_satisfaction, "Medium",
                           "Study satisfaction level of {value}/5 indicates dissatisfaction with academic life") >>
        ELSE << >>

\* The job-satisfaction rule without the test that leaves 0 out.
JobSatisfactionRuleCountsZero(d) ==
    LET job_satisfaction == NumGet(d, "job_satisfaction", 0)
    IN  IF job_satisfaction <= 20
        THEN << RiskFactor(<<"Low", "Job", "Satisfaction">>, job_satisfaction, "Medium",
                           "Job satisfaction level of {value}/5 indicates workplace dissatisfaction") >>
        ELSE << >>

JobSatisfactionRule(d) ==
    LET job_satisfaction == NumGet(d, "job_satisfaction", 0)
    IN  IF job_satisfaction <= 20 /\ job_satisfaction > 0
        THEN << RiskFactor(<<"Low", "Job", "Satisfaction">>, job_satisfaction, "Medium",
                           "Job satisfaction level of {value}/5 indicates workplace dissatisfaction") >>
        ELSE << >>

CgpaRule(d) ==
    LET cgpa == NumGet(d, "cgpa", 0)
    IN  IF cgpa < 60
        THEN << RiskFactor(<<"Low", "Academic", "Performance">>, cgpa, "Medium",
                           "CGPA of {value} may indicate academic struggles affecting mental health") >>
        ELSE << >>

\* The rules with the work-pressure rule moved next to the other pressures.
CollectedFactorsReordered(d) ==
       AcademicPressureRule(d) \o FinancialStressRule(d) \o WorkPressureRule(d)
    \o SleepRule(d) \o DietRule(d) \o SuicidalThoughtsRule(d)
    \o FamilyHistoryRule(d) \o StudySatisfactionRule(d) \o JobSatisfactionRule(d)
    \o CgpaRule(d)

\* The rules in the order of the code, with no failure.
CollectedFactors(d) ==
       AcademicPressureRule(d) \o FinancialStressRule(d) \o SleepRule(d)
    \o DietRule(d) \o SuicidalThoughtsRule(d) \o FamilyHistoryRule(d)
    \o WorkPressureRule(d) \o StudySatisfactionRule(d) \o JobSatisfactionRule(d)
    \o CgpaRule(d)

\* The analyzer with each rule in a try block of its own: a rule that fails
\* emits nothing and the others go on.
AnalyzeRiskFactorsIsolated(d) ==
    LET typed == [num |-> d.num,
                  str |-> [k \in (DOMAIN d.str) \ ComparedKeys |-> d.str[k]]]
        failed(name) ==
            \/ name = <<"High", "Academic", "Pressure">> /\ "academic_pressure" \in DOMAIN d.str
            \/ name = <<"High", "Financial", "Stress">> /\ "financial_stress" \in DOMAIN d.str
            \/ name = <<"High", "Work", "Pressure">> /\ "work_pressure" \in DOMAIN d.str
            \/ name = <<"Low", "Study", "Satisfaction">> /\ "study_satisfaction" \in DOMAIN d.str
            \/ name = <<"Low", "Job", "Satisfaction">> /\ "job_satisfaction" \in DOMAIN d.str
            \/ name = <<"Low", "Academic", "Performance">> /\ "cgpa" \in DOMAIN d.str
        kept(f) == ~failed(f.factor)
    IN  SelectSeq(CollectedFactors(typed), kept)

\* One try block around all the rules: any failure returns [].
AnalyzeRiskFactors(d) == IF AnalyzeRaises(d) THEN << >> ELSE CollectedFactors(d)

(***************************************************************************)
(* DataPreprocessor.generate_recommendations                               *)
(***************************************************************************)
\* probability > t/10, the probability being probability/ProbDen.
ProbGT(probability, t) == 10 * probability > t * ProbDen

\* probability < t/10
ProbLT(probability, t) == 10 * probability < t * ProbDen

CrisisSeed ==
    << "Seek immediate professional help from a mental health counselor or therapist",
       "Consider reaching out to a trusted friend or family member for support",
       "Contact a mental health helpline if you're in crisis" >>

ModerateSeed ==
    << "Consider speaking with a mental health professional for assessment",
       "Focus on stress management techniques and self-care",
       "Maintain regular sleep and exercise routines" >>

MaintenanceSeed ==
    << "Continue maintaining good mental health practices",
       "Stay connected with friends and family",
       "Engage in activities you enjoy" >>

\* The seed chosen with >= in place of >.
SeedRecommendationsInclusive(probability) ==
    IF 10 * probability >= 7 * ProbDen THEN CrisisSeed
    ELSE IF 10 * probability >= 4 * ProbDen THEN ModerateSeed
    ELSE MaintenanceSeed

\* The general recommendations of the probability band.
SeedRecommendations(probability) ==
    IF ProbGT(probability, 7) THEN CrisisSeed
    ELSE IF ProbGT(probability, 4) THEN ModerateSeed
    ELSE MaintenanceSeed

\* Python's `sub in name` on strings, both held as sequences of words.
Contains(name, sub) ==
    \E i \in 0..(Len(name) - Len(sub)) :
        \A j \in 1..Len(sub) : name[i + j] = sub[j]

\* The two strings each branch of the elif chain appends.
AcademicPressureAdvice ==
    << "Consider academic counseling or tutoring to manage study stress",
       "Break down large assignments into smaller, manageable tasks" >>

FinancialStressAdvice ==
    << "Seek financial counseling or speak with a financial advisor",
       "Look into scholarships, grants, or part-time work opportunities" >>

SleepAdvice ==
    << "Establish a consistent sleep schedule and bedtime routine",
       "Avoid screens 1 hour before bedtime and create a relaxing environment" >>

DietAdvice ==
    << "Focus on a balanced diet with regular meals",
       "Consider consulting a nutritionist for dietary guidance" >>

SuicidalThoughtsAdvice ==
    << "URGENT: Contact a mental health professional immediately",
       "Call a suicide prevention hotline if you're in crisis" >>

FamilyHistoryAdvice ==
    << "Be aware of your family history and monitor your mental health regularly",
       "Consider preventive mental health counseling" >>

WorkPressureAdvice ==
    << "Discuss workload with your supervisor or academic advisor",
       "Practice time management and delegation techniques" >>

SatisfactionAdvice ==
    << "Explore new interests or hobbies to increase life satisfaction",
       "Consider career counseling or academic guidance" >>

AcademicPerformanceAdvice ==
    << "Seek academic support services or tutoring",
       "Meet with academic advisors to discuss study strategies" >>

\* The elif chain with its first test loosened to 'Academic' in factor.
FactorRecommendationsLooseMatch(factor) ==
    IF Contains(factor, <<"Academic">>) THEN AcademicPressureAdvice
    ELSE IF Contains(factor, <<"Financial", "Stress">>) THEN FinancialStressAdvice
    ELSE IF Contains(factor, <<"Sleep">>) THEN SleepAdvice
    ELSE IF Contains(factor, <<"Diet">>) THEN DietAdvice
    ELSE IF Contains(factor, <<"Suicidal", "Thoughts">>) THEN SuicidalThoughtsAdvice
    ELSE IF Contains(factor, <<"Family", "History">>) THEN FamilyHistoryAdvice
    ELSE IF Contains(factor, <<"Work", "Pressure">>) THEN WorkPressureAdvice
    ELSE IF Contains(factor, <<"Satisfaction">>) THEN SatisfactionAdvice
    ELSE IF Contains(factor, <<"Academic", "Performance">>) THEN AcademicPerformanceAdvice
    ELSE << >>

\* The elif chain of the loop body: the strings one factor name appends.
FactorRecommendations(factor) ==
    IF Contains(factor, <<"Academic", "Pressure">>) THEN AcademicPressureAdvice
    ELSE IF Contains(factor, <<"Financial", "Stress">>) THEN FinancialStressAdvice
    ELSE IF Contains(factor, <<"Sleep">>) THEN SleepAdvice
    ELSE IF Contains(factor, <<"Diet">>) THEN DietAdvice
    ELSE IF Contains(factor, <<"Suicidal", "Thoughts">>) THEN SuicidalThoughtsAdvice
    ELSE IF Contains(factor, <<"Family", "History">>) THEN FamilyHistoryAdvice
    ELSE IF Contains(factor, <<"Work", "Pressure">>) THEN WorkPressureAdvice
    ELSE IF Contains(factor, <<"Satisfaction">>) THEN SatisfactionAdvice
    ELSE IF Contains(factor, <<"Academic", "Performance">>) THEN AcademicPerformanceAdvice
    ELSE << >>

\* The loop over risk_factors: the strings appended after the seed.
RECURSIVE SpecificRecommendations(_)
SpecificRecommendations(factors) ==
    IF factors = << >> THEN << >>
    ELSE FactorRecommendations(Head(factors).factor)
            \o SpecificRecommendations(Tail(factors))

\* recommendations, before duplicates are removed.
AllRecommendations(probability, factors) ==
    SeedRecommendations(probability) \o SpecificRecommendations(factors)

\* The seen-set loop: each string kept at its first occurrence.
RECURSIVE Unique(_, _)
Unique(recs, seen) ==
    IF recs = << >> THEN << >>
    ELSE IF Head(recs) \in seen THEN Unique(Tail(recs), seen)
    ELSE << Head(recs) >> \o Unique(Tail(recs), seen \cup {Head(recs)})

\* No de-duplication.
KeepDuplicates(recs) == recs

RemoveDuplicates(recs) == Unique(recs, {})

\* The limit of unique_recommendations[:10].
MaxRecommendations == 10

\* seq[-n:], the last n entries in place of the first.
LastEntries(seq, n) ==
    SubSeq(seq, (IF Len(seq) < n THEN 1 ELSE Len(seq) - n + 1), Len(seq))

\* seq[:n]
Prefix(seq, n) == SubSeq(seq, 1, IF Len(seq) < n THEN Len(seq) ELSE n)

FallbackRecommendations ==
    << "Please consult with a mental health professional for personalized advice" >>

\* risk_factor['factor'] raises KeyError on a factor without that key.
RecommendRaises(factors) ==
    \E i \in 1..Len(factors) : "factor" \notin DOMAIN factors[i]

GenerateRecommendations(d, probability, factors) ==
    IF RecommendRaises(factors) THEN FallbackRecommendations
    ELSE Prefix(RemoveDuplicates(AllRecommendations(probability, factors)),
                MaxRecommendations)

\* A probability argument that may be no number: [number |-> TRUE, value]
\* is the number value/ProbDen, [number |-> FALSE, value] an object such as
\* None, on which `probability > 0.7` raises TypeError.
ProbabilityArg(number, value) == [number |-> number, value |-> value]

\* The handler of generate_recommendations returning [] in place of the
\* fallback string.
GenerateRecommendationsOrEmpty(d, probability, factors) ==
    IF ~probability.number THEN << >>
    ELSE IF RecommendRaises(factors) THEN << >>
    ELSE GenerateRecommendations(d, probability.value, factors)

\* generate_recommendations on any probability argument: the comparison of
\* the first branch is inside the try block.
GenerateRecommendationsOrFallback(d, probability, factors) ==
    IF ~probability.number THEN FallbackRecommendations
    ELSE GenerateRecommendations(d, probability.value, factors)

(***************************************************************************)
(* The confidence and risk_level labels: diagnose (src/api/main.py) and    *)
(* make_prediction (src/app/streamlit_app.py) each hold their own copy.    *)
(***************************************************************************)
ApiConfidence(probability) ==
    IF ProbGT(probability, 8) \/ ProbLT(probability, 2) THEN "High"
    ELSE IF ProbGT(probability, 6) \/ ProbLT(probability, 4) THEN "Medium"
    ELSE "Low"

\* The risk level with >= in place of >.
ApiRiskLevelInclusive(probability) ==
    IF 10 * probability >= 7 * ProbDen THEN "High"
    ELSE IF 10 * probability >= 4 * ProbDen THEN "Medium"
    ELSE "Low"

ApiRiskLevel(probability) ==
    IF ProbGT(probability, 7) THEN "High"
    ELSE IF ProbGT(probability, 4) THEN "Medium"
    ELSE "Low"

\* The confidence with >= and <= in place of > and <.
AppConfidenceInclusive(probability) ==
    IF 10 * probability >= 8 * ProbDen \/ 10 * probability <= 2 * ProbDen THEN "High"
    ELSE IF 10 * probability >= 6 * ProbDen \/ 10 * probability <= 4 * ProbDen THEN "Medium"
    ELSE "Low"

AppConfidence(probability) ==
    IF ProbGT(probability, 8) \/ ProbLT(probability, 2) THEN "High"
    ELSE IF ProbGT(probability, 6) \/ ProbLT(probability, 4) THEN "Medium"
    ELSE "Low"

AppRiskLevel(probability) ==
    IF ProbGT(probability, 7) THEN "High"
    ELSE IF ProbGT(probability, 4) THEN "Medium"
    ELSE "Low"

(***************************************************************************)
(* The raw answers the model runs the pipeline on.                         *)
(***************************************************************************)
Answers(num, str) == [num |-> num, str |-> str]

\* data[key] = value, value a number
SetNum(d, key, value) == Answers((key :> value) @@ d.num, Without(d.str, key))

\* data[key] = value, value a string
SetStr(d, key, value) == Answers(Without(d.num, key), (key :> value) @@ d.str)

\* del data[key]
Remove(d, key) == Answers(Without(d.num, key), Without(d.str, key))

\* sample_data of test_model_loading, its job_satisfaction given as the
\* number 0 that process_job_satisfaction assigns to 'Not Applicable'.
BaseAnswers ==
    Answers([age |-> 220, academic_pressure |-> 40, work_pressure |-> 30,
             cgpa |-> 85, study_satisfaction |-> 30, job_satisfaction |-> 0,
             work_study_hours |-> 60, financial_stress |-> 20],
            [gender |-> "Female", sleep_duration |-> "7-8 hours",
             dietary_habits |-> "Healthy", suicidal_thoughts |-> "No",
             family_history |-> "No", city |-> "Mumbai",
             profession |-> "Student", degree |-> "Bachelor's"])

\* The same answers with a job satisfaction of 3, inside the range
\* DiagnosisRequest declares.
EmployedAnswers == SetNum(BaseAnswers, "job_satisfaction", 30)

\* sample_data of test_model_loading as written.
NotApplicableAnswers == SetStr(BaseAnswers, "job_satisfaction", "Not Applicable")

\* The end-to-end scenario of the specification (section 8, property 7), the
\* answers it leaves open taken from BaseAnswers.
ScenarioAnswers ==
    Answers([age |-> 220, academic_pressure |-> 50, work_pressure |-> 30,
             cgpa |-> 70, study_satisfaction |-> 30, job_satisfaction |-> 0,
             work_study_hours |-> 60, financial_stress |-> 50],
            [gender |-> "Female", sleep_duration |-> "Less than 5 hours",
             dietary_habits |-> "Unhealthy", suicidal_thoughts |-> "Yes",
             family_history |-> "Yes", city |-> "Mumbai",
             profession |-> "Student", degree |-> "Bachelor's"])

\* Every answer that a rule of analyze_risk_factors reads is either a value
\* that triggers the rule or one that does not: all combinations.
CornerAnswers ==
    { Answers([age |-> 220, academic_pressure |-> ap, work_pressure |-> wp,
               cgpa |-> cg, study_satisfaction |-> ss, job_satisfaction |-> js,
               work_study_hours |-> 60, financial_stress |-> fs],
              [gender |-> "Female", sleep_duration |-> sl,
               dietary_habits |-> di, suicidal_thoughts |-> su,
               family_history |-> fh, city |-> "Mumbai",
               profession |-> "Student", degree |-> "Bachelor's"]) :
        ap \in {30, 50}, wp \in {30, 50}, cg \in {59, 70}, ss \in {20, 30},
        js \in {0, 20}, fs \in {30, 50},
        sl \in {"Less than 5 hours", "7-8 hours"},
        di \in {"Unhealthy", "Healthy"}, su \in {"No", "Yes"},
        fh \in {"No", "Yes"} }

\* One change of one answer: a number, a string, or the key removed.
Edit(key, kind, n, s) == [key |-> key, kind |-> kind, n |-> n, s |-> s]

NumEdits ==
    { Edit(e[1], "num", e[2], "") : e \in
        ({"academic_pressure", "work_pressure", "financial_stress"} \X
                {20, 30, 39, 40, 45, 50})
        \cup ({"cgpa"} \X {0, 59, 60, 100})
        \cup ({"study_satisfaction"} \X {10, 20, 30})
        \cup ({"job_satisfaction"} \X {0, 10, 20, 30})
        \cup ({"age"} \X {160})
        \cup ({"work_study_hours"} \X {0}) }

StrEdits ==
    { Edit(e[1], "str", 0, e[2]) : e \in
        ({"gender"} \X {"Male", "Other", "Unknown"})
        \cup ({"sleep_duration"} \X
                {"Less than 5 hours", "5-6 hours", "More than 8 hours", "Others", "Unknown"})
        \cup ({"dietary_habits"} \X {"Unhealthy", "Moderate", "Others", "Unknown"})
        \cup ({"suicidal_thoughts"} \X {"Yes", "Unknown"})
        \cup ({"family_history"} \X {"Yes", "Unknown"})
        \cup ({"profession"} \X
                {"Employee", "Self-employed", "Unemployed", "Other", "Unknown"})
        \cup ({"job_satisfaction"} \X {"Not Applicable", "3 - Neutral", "3"})
        \cup ({"cgpa"} \X {"2.5"}) }

DelEdits ==
    { Edit(k, "del", 0, "") : k \in
        {"age", "academic_pressure", "work_pressure", "cgpa", "study_satisfaction",
         "job_satisfaction", "work_study_hours", "financial_stress", "gender",
         "sleep_duration", "dietary_habits", "suicidal_thoughts", "family_history",
         "profession"} }

Edits == NumEdits \cup StrEdits \cup DelEdits

Apply(d, e) ==
    CASE e.kind = "num" -> SetNum(d, e.key, e.n)
      [] e.kind = "str" -> SetStr(d, e.key, e.s)
      [] e.kind = "del" -> Remove(d, e.key)

\* The base answers with at most n answers changed.
RECURSIVE Swept(_)
Swept(n) ==
    IF n = 0 THEN {BaseAnswers, EmployedAnswers}
    ELSE LET S == Swept(n - 1) IN S \cup { Apply(d, e) : d \in S, e \in Edits }

Requests == CornerAnswers \cup Swept(MaxSwept)

Probabilities == 0..ProbDen

(***************************************************************************)
(* The models directories the model starts the service on.                 *)
(***************************************************************************)
\* The number of features the artifacts of the repository were fitted on:
\* the length of the default feature columns.
FittedWidth == 15

\* The contents of one artifact file: a fitted model or scaler with the
\* width it was fitted on, or a list of feature columns.
File(kind, n_features_in, columns) ==
    [kind |-> kind, n_features_in |-> n_features_in, columns |-> columns]

\* Feature-column files: the default columns in another order, with a name
\* preprocess does not produce, and with the last name left out.
ReversedColumns ==
    [i \in 1..Len(DefaultFeatureColumns) |->
        DefaultFeatureColumns[Len(DefaultFeatureColumns) + 1 - i]]

UnknownColumns == [DefaultFeatureColumns EXCEPT ![13] = "City_encoded"]

ShortColumns == SubSeq(DefaultFeatureColumns, 1, Len(DefaultFeatureColumns) - 1)

\* A directory holding the model files ms fitted on m features, the scaler
\* files ss fitted on n features, and a feature-column file when columns is
\* not empty.
Dir(ms, m, ss, n, columns) ==
    [f \in ms \cup ss \cup (IF columns = << >> THEN {} ELSE {feature_files[1]}) |->
        IF f \in ms THEN File("model", m, << >>)
        ELSE IF f \in ss THEN File("scaler", n, << >>)
        ELSE File("columns", 0, columns)]

ModelsDirs ==
    { Dir(ms, m, ss, n, columns) :
        ms \in SUBSET Range(model_files), m \in {FittedWidth - 1, FittedWidth},
        ss \in SUBSET Range(scaler_files), n \in {FittedWidth - 1, FittedWidth},
        columns \in {<< >>, ReversedColumns, UnknownColumns, ShortColumns} }

\* The first model and scaler candidates and no feature-column file.
DefaultModelsDir ==
    Dir({model_files[1]}, FittedWidth, {scaler_files[1]}, FittedWidth, << >>)

(***************************************************************************)
(* DiagnosisRequest: the validation of the body of POST /diagnose.         *)
(***************************************************************************)
RequestFields ==
    NumericKeys \cup {"gender", "sleep_duration", "dietary_habits",
                      "suicidal_thoughts", "family_history", "city",
                      "profession", "degree"}

\* Field(..., ge=lo, le=hi), in tenths.
FieldRange ==
    [f \in NumericKeys |->
        CASE f = "age"              -> [ge |-> 160, le |-> 1000]
          [] f = "cgpa"             -> [ge |-> 0, le |-> 100]
          [] f = "work_study_hours" -> [ge |-> 0, le |-> 240]
          [] OTHER                  -> [ge |-> 10, le |-> 50]]

valid_genders == {"Male", "Female", "Other"}

valid_sleep ==
    {"Less than 5 hours", "5-6 hours", "7-8 hours", "More than 8 hours", "Others"}

valid_diet == {"Unhealthy", "Moderate", "Healthy", "Others"}

valid_suicidal == {"Yes", "No"}

valid_family == {"Yes", "No"}

\* The fields with a @validator and the values each accepts.
Validators ==
       ("gender" :> valid_genders) @@ ("sleep_duration" :> valid_sleep)
    @@ ("dietary_habits" :> valid_diet) @@ ("suicidal_thoughts" :> valid_suicidal)
    @@ ("family_history" :> valid_family)

\* DiagnosisRequest(**body) raises ValidationError: a required field is
\* missing, a float field holds a string float() rejects or a number
\* outside its range, or a validated field holds another value.
RequestRejected(d) ==
    \/ \E f \in RequestFields : ~Has(d, f)
    \/ \E f \in NumericKeys :
          \/ FloatRaises(d, f)
          \/ Has(d, f) /\ ~FloatRaises(d, f)
                /\ (Float(d, f) < FieldRange[f].ge \/ Float(d, f) > FieldRange[f].le)
    \/ \E f \in DOMAIN Validators : StrGet(d, f, "<missing>") \notin Validators[f]

\* request.dict(): the float fields coerced to numbers.
RequestDict(d) ==
    Answers([f \in NumericKeys |-> Float(d, f)],
            [f \in (DOMAIN d.str) \ NumericKeys |-> d.str[f]])

(***************************************************************************)
(* The service: startup loads the artifacts, then one request is taken     *)
(* through preprocess, predict, analyze_risk_factors,                      *)
(* generate_recommendations and the assembly of the result, as diagnose    *)
(* and make_prediction do; GET /health reports whether a predictor exists. *)
(***************************************************************************)
\* The requests sent to a service started on any of the directories.
ModelRequests == {EmployedAnswers, ScenarioAnswers}

Init ==
    /\ \/ models_dir = DefaultModelsDir /\ data \in Requests
       \/ models_dir \in ModelsDirs /\ data \in ModelRequests
    /\ preprocessor = None
    /\ predictor = None
    /\ pc = "startup"
    /\ processed = None
    /\ feature_vector = << >>
    /\ prediction_result = None
    /\ risk_factors = << >>
    /\ recommendations = << >>
    /\ response = None
    /\ call = None
    /\ requests = << >>
    /\ session = None

\* startup_event with a _load_models that asks for a model file only.
StartupModelOnly ==
    /\ pc = "startup"
    /\ IF LoadModelsRaisesModelOnly(models_dir)
       THEN /\ pc' = "unloaded"
            /\ UNCHANGED <<predictor, preprocessor>>
       ELSE /\ pc' = "ready"
            /\ predictor' = MentalHealthPredictorInit(models_dir)
            /\ preprocessor' = DataPreprocessorInit
    /\ UNCHANGED <<models_dir, data, processed, feature_vector, prediction_result,
                   risk_factors, recommendations, response, call,
                   requests, session>>

\* startup_event (and load_models of the questionnaire): the predictor is
\* constructed first; when its constructor raises, neither global is
\* assigned and the exception leaves the handler.
Startup ==
    /\ pc = "startup"
    /\ IF LoadModelsRaises(models_dir)
       THEN /\ pc' = "unloaded"
            /\ UNCHANGED <<predictor, preprocessor>>
       ELSE /\ pc' = "ready"
            /\ predictor' = MentalHealthPredictorInit(models_dir)
            /\ preprocessor' = DataPreprocessorInit
    /\ UNCHANGED <<models_dir, data, processed, feature_vector, prediction_result,
                   risk_factors, recommendations, response, call,
                   requests, session>>

\* health_check, before or after startup.
HealthResponse(self) ==
    [status |-> IF self # None THEN "healthy" ELSE "unhealthy",
     model_loaded |-> self # None]

HealthCheck ==
    /\ pc \in {"startup", "ready", "unloaded"}
    /\ response' = HealthResponse(predictor)
    /\ pc' = CASE pc = "startup"  -> "health_before_startup"
               [] pc = "ready"    -> "health_ready"
               [] pc = "unloaded" -> "health_unloaded"
    /\ UNCHANGED <<models_dir, preprocessor, predictor, data, processed,
                   feature_vector, prediction_result, risk_factors,
                   recommendations, call,
                   requests, session>>

\* POST /diagnose: the body is validated into a DiagnosisRequest before
\* diagnose runs; a rejected body never reaches it.
Validate ==
    /\ pc = "ready"
    /\ IF RequestRejected(data)
       THEN /\ pc' = "rejected"
            /\ data' = data
       ELSE /\ pc' = "validated"
            /\ data' = RequestDict(data)
    /\ UNCHANGED <<models_dir, preprocessor, predictor, processed, feature_vector,
                   prediction_result, risk_factors, recommendations, response, call,
                   requests, session>>

\* raise HTTPException(status_code=..., detail=...)
HTTPException(status_code, detail) ==
    [type |-> "HTTPException", status_code |-> status_code, detail |-> detail]

ModelsNotLoaded == HTTPException(503, "Models not loaded. Please try again later.")

\* str(e) of an HTTPException: "503: Models not loaded. ..." where the
\* class defines __str__, the empty string where it does not.
StrOfException(e) ==
    IF e.type = "HTTPException"
    THEN {"", "503: Models not loaded. Please try again later."}
    ELSE {e.detail}

\* The except clauses of diagnose, applied to an exception raised inside
\* its try block: ValueError is answered with 400, every other Exception
\* with 500. HTTPException derives from Exception and not from ValueError,
\* so the second clause takes it.
DiagnoseExcept(e, text) ==
    IF e.type = "ValueError"
    THEN HTTPException(400, <<"Validation error: ", text>>)
    ELSE HTTPException(500, <<"Internal server error: ", text>>)

\* POST /diagnose while predictor or preprocessor is None (startup_event
\* has not run, or its constructor raised): the body is validated first,
\* then the first statement of the try block raises.
DiagnoseUnloaded ==
    /\ pc \in {"startup", "unloaded"}
    /\ predictor = None \/ preprocessor = None
    /\ IF RequestRejected(data)
       THEN /\ pc' = "rejected"
            /\ response' = response
       ELSE /\ pc' = "diagnose_error"
            /\ \E text \in StrOfException(ModelsNotLoaded) :
                  response' = DiagnoseExcept(ModelsNotLoaded, text)
    /\ UNCHANGED <<models_dir, preprocessor, predictor, data, processed,
                   feature_vector, prediction_result, risk_factors,
                   recommendations, call, requests, session>>

\* make_prediction and test_model_loading: the answers are passed on as
\* they were collected.
Submit ==
    /\ pc = "ready"
    /\ pc' = "received"
    /\ UNCHANGED <<models_dir, preprocessor, predictor, data, processed,
                   feature_vector, prediction_result, risk_factors,
                   recommendations, response, call,
                   requests, session>>

\* preprocess, with data.pop in place of data.get for the sleep answer.
PreprocessPopsSleep ==
    /\ pc \in {"received", "validated", "preprocessed"}
    /\ IF PreprocessRaises(data)
       THEN /\ pc' = "failed"
            /\ processed' = None
       ELSE /\ pc' = IF pc = "preprocessed" THEN "preprocessed_again" ELSE "preprocessed"
            /\ processed' = PreprocessValue(preprocessor, data)
    /\ data' = Remove(data, "sleep_duration")
    /\ UNCHANGED <<models_dir, preprocessor, predictor, feature_vector,
                   prediction_result, risk_factors, recommendations, response, call,
                   requests, session>>

\* processed_data = preprocessor.preprocess(data).  The call reads data and
\* the tables and assigns to neither.  A caller may repeat it on the same
\* answers before it predicts.
Preprocess ==
    /\ pc \in {"received", "validated", "preprocessed"}
    /\ IF PreprocessRaises(data)
       THEN /\ pc' = "failed"
            /\ processed' = None
       ELSE /\ pc' = IF pc = "preprocessed" THEN "preprocessed_again" ELSE "preprocessed"
            /\ processed' = PreprocessValue(preprocessor, data)
    /\ UNCHANGED <<models_dir, preprocessor, predictor, data, feature_vector,
                   prediction_result, risk_factors, recommendations, response, call,
                   requests, session>>

\* The feature vector with a name the mapping lacks skipped.
FeatureVectorSkipsMissing(self, p) ==
    LET present(name) == name \in DOMAIN p
        names == SelectSeq(self.feature_columns, present)
    IN  [i \in 1..Len(names) |-> p[names[i]]]

\* The feature vector predict hands to the scaler: one entry per feature
\* column, 0.0 for a name the mapping lacks.
FeatureVector(self, p) ==
    [i \in 1..Len(self.feature_columns) |-> DictGet(p, self.feature_columns[i], 0)]

\* predict raises on every feature column the mapping lacks.
PredictRaisesOnMissing(self, p, vector) ==
    \/ self.model = None \/ self.scaler = None
    \/ \E i \in 1..Len(self.feature_columns) : self.feature_columns[i] \notin DOMAIN p
    \/ Len(vector) # self.scaler.n_features_in
    \/ self.scaler.n_features_in # self.model.n_features_in

\* predict raises (logged and re-raised): no model or scaler, or the scaler
\* or the classifier is handed a row of another width than it was fitted on.
PredictRaises(self, p, vector) ==
    \/ self.model = None \/ self.scaler = None
    \/ Len(vector) # self.scaler.n_features_in
    \/ self.scaler.n_features_in # self.model.n_features_in

\* prediction_result = predictor.predict(processed_data): the fitted scaler
\* and classifier are opaque, the class and the probability are any.
Predict ==
    /\ pc \in {"preprocessed", "preprocessed_again"}
    /\ feature_vector' = FeatureVector(predictor, processed)
    /\ IF PredictRaises(predictor, processed, feature_vector')
       THEN /\ pc' = "predict_failed"
            /\ prediction_result' = None
       ELSE /\ pc' = "predicted"
            /\ \E probability \in Probabilities, prediction \in {0, 1} :
                  prediction_result' = [prediction |-> prediction, probability |-> probability]
    /\ UNCHANGED <<models_dir, preprocessor, predictor, data, processed,
                   risk_factors, recommendations, response, call,
                   requests, session>>

\* risk_factors = preprocessor.analyze_risk_factors(data)
AnalyzeRisk ==
    /\ pc = "predicted"
    /\ risk_factors' = AnalyzeRiskFactors(data)
    /\ pc' = "analyzed"
    /\ UNCHANGED <<models_dir, preprocessor, predictor, data, processed,
                   feature_vector, prediction_result, recommendations, response, call,
                   requests, session>>

\* recommendations = preprocessor.generate_recommendations(data, probability, risk_factors)
Recommend ==
    /\ pc = "analyzed"
    /\ recommendations' =
          GenerateRecommendations(data, prediction_result.probability, risk_factors)
    /\ pc' = "recommended"
    /\ UNCHANGED <<models_dir, preprocessor, predictor, data, processed,
                   feature_vector, prediction_result, risk_factors, response, call,
                   requests, session>>

\* diagnose: the confidence and risk_level labels and the response record
\* (the timestamp is left out).
AssembleApi ==
    /\ pc = "recommended"
    /\ response' =
          [prediction |-> prediction_result.prediction,
           probability |-> prediction_result.probability,
           confidence |-> ApiConfidence(prediction_result.probability),
           risk_level |-> ApiRiskLevel(prediction_result.probability),
           risk_factors |-> risk_factors,
           recommendations |-> recommendations]
    /\ pc' = "done"
    /\ UNCHANGED <<models_dir, preprocessor, predictor, data, processed,
                   feature_vector, prediction_result, risk_factors,
                   recommendations, call,
                   requests, session>>

\* make_prediction: the same labels, computed by the questionnaire's copy.
AssembleApp ==
    /\ pc = "recommended"
    /\ response' =
          [prediction |-> prediction_result.prediction,
           probability |-> prediction_result.probability,
           confidence |-> AppConfidence(prediction_result.probability),
           risk_level |-> AppRiskLevel(prediction_result.probability),
           risk_factors |-> risk_factors,
           recommendations |-> recommendations]
    /\ pc' = "done"
    /\ UNCHANGED <<models_dir, preprocessor, predictor, data, processed,
                   feature_vector, prediction_result, risk_factors,
                   recommendations, call,
                   requests, session>>

Next ==
    \/ Startup
    \/ HealthCheck
    \/ Validate
    \/ DiagnoseUnloaded
    \/ Submit
    \/ Preprocess
    \/ Predict
    \/ AnalyzeRisk
    \/ Recommend
    \/ AssembleApi
    \/ AssembleApp

Spec == Init /\ [][Next]_vars

(***************************************************************************)
(* The methods of DataPreprocessor called on their own, on arguments the   *)
(* pipeline does not produce as well as on those it does.                  *)
(***************************************************************************)
\* The features of the scenario before the risk score is added.
ScenarioFeatures ==
    NumericPart(ScenarioAnswers) @@ DerivedPart(DataPreprocessorInit, ScenarioAnswers)

\* Mappings for _calculate_risk_score: the features of the scenario with
\* some keys it reads (and one it does not) missing or holding a non-number.
ScoreArguments ==
    { [num |-> [k \in (DOMAIN ScenarioFeatures) \ (missing \cup bad) |-> ScenarioFeatures[k]],
       str |-> [k \in bad |-> "n/a"]] :
        missing \in SUBSET (RiskScoreKeys \cup {"Age"}),
        bad \in SUBSET (RiskScoreKeys \cup {"Age"}) }

\* Probability arguments: the numbers of the grid and None.
ProbabilityArguments ==
    { ProbabilityArg(TRUE, p) : p \in Probabilities } \cup { ProbabilityArg(FALSE, 0) }

\* Risk factors for generate_recommendations: those of the scenario, one of
\* a name no category matches, and one without a 'factor' key.
FactorArguments ==
    CollectedFactors(ScenarioAnswers)
    \o << RiskFactor(<<"Social", "Isolation">>, "Yes", "Medium", "Reported isolation"),
          [value |-> "Yes", impact |-> "Medium", description |-> "No name"] >>

\* The list of at most two of them picked by position (0 picks none).
FactorList(i, j) ==
    (IF i = 0 THEN << >> ELSE << FactorArguments[i] >>)
    \o (IF j = 0 THEN << >> ELSE << FactorArguments[j] >>)

Call(method, args, raised, result) ==
    [method |-> method, args |-> args, raised |-> raised, result |-> result]

InitCalls ==
    /\ models_dir = DefaultModelsDir
    /\ preprocessor = DataPreprocessorInit
    /\ predictor = None
    /\ data = BaseAnswers
    /\ pc = "call"
    /\ processed = None
    /\ feature_vector = << >>
    /\ prediction_result = None
    /\ risk_factors = << >>
    /\ recommendations = << >>
    /\ response = None
    /\ call = None
    /\ requests = << >>
    /\ session = None

Returned ==
    /\ pc' = "returned"
    /\ UNCHANGED <<models_dir, preprocessor, predictor, data, processed,
                   feature_vector, prediction_result, risk_factors,
                   recommendations, response,
                   requests, session>>

CallPreprocess ==
    /\ pc = "call"
    /\ \E d \in Requests :
          call' = Call("preprocess", d, PreprocessRaises(d),
                       IF PreprocessRaises(d) THEN None
                       ELSE PreprocessValue(preprocessor, d))
    /\ Returned

CallCalculateRiskScore ==
    /\ pc = "call"
    /\ \E m \in ScoreArguments :
          call' = Call("_calculate_risk_score", m, FALSE, CalculateRiskScoreOrZero(m))
    /\ Returned

CallAnalyzeRiskFactors ==
    /\ pc = "call"
    /\ \E d \in Requests :
          call' = Call("analyze_risk_factors", d, FALSE, AnalyzeRiskFactors(d))
    /\ Returned

CallGenerateRecommendations ==
    /\ pc = "call"
    /\ \E probability \in ProbabilityArguments, i, j \in 0..Len(FactorArguments) :
          call' = Call("generate_recommendations",
                       [probability |-> probability, risk_factors |-> FactorList(i, j)],
                       FALSE,
                       GenerateRecommendationsOrFallback(data, probability, FactorList(i, j)))
    /\ Returned

NextCalls ==
    \/ CallPreprocess
    \/ CallCalculateRiskScore
    \/ CallAnalyzeRiskFactors
    \/ CallGenerateRecommendations

SpecCalls == InitCalls /\ [][NextCalls]_vars

(***************************************************************************)
(* Two runs of the pipeline (diagnose, or make_prediction of two sessions) *)
(* served side by side on the one predictor and the one preprocessor that  *)
(* startup_event and the cached load_models hand to every run.  Each run   *)
(* keeps its own locals; the stages of the two runs interleave in any      *)
(* order.  The fitted classifier is opaque but fixed: outputs gives the    *)
(* class and probability it returns for each row.                          *)
(***************************************************************************)
RequestIds == {1, 2}

ConcurrentRequests == {EmployedAnswers, ScenarioAnswers, NotApplicableAnswers}

\* The rows the classifier is asked about.
ClassifierInputs ==
    { FeatureVector(MentalHealthPredictorInit(DefaultModelsDir),
                    PreprocessValue(DataPreprocessorInit, d)) :
        d \in { e \in ConcurrentRequests : ~PreprocessRaises(e) } }

ClassifierOutputs == [prediction : {0, 1}, probability : Probabilities]

\* The default directory, its model file fitted to return outputs.
FittedModelsDir(outputs) ==
    [f \in DOMAIN DefaultModelsDir |->
        IF DefaultModelsDir[f].kind = "model"
        THEN [kind |-> "model", n_features_in |-> FittedWidth, columns |-> << >>,
              outputs |-> outputs]
        ELSE DefaultModelsDir[f]]

\* The locals of one run that has received its answers.
Locals(d) ==
    [request |-> d, data |-> d, pc |-> "received", processed |-> None,
     feature_vector |-> << >>, prediction_result |-> None,
     risk_factors |-> << >>, recommendations |-> << >>]

InitConcurrent ==
    /\ \E outputs \in [ClassifierInputs -> ClassifierOutputs] :
          models_dir = FittedModelsDir(outputs)
    /\ preprocessor = DataPreprocessorInit
    /\ predictor = MentalHealthPredictorInit(models_dir)
    /\ requests \in [RequestIds -> { Locals(d) : d \in ConcurrentRequests }]
    /\ pc = "serving"
    /\ data = BaseAnswers
    /\ processed = None
    /\ feature_vector = << >>
    /\ prediction_result = None
    /\ risk_factors = << >>
    /\ recommendations = << >>
    /\ response = None
    /\ call = None
    /\ session = None

\* What every stage of a run leaves alone: the variables of the other
\* specifications, the files, and the two shared objects.
StageFrame ==
    UNCHANGED <<models_dir, preprocessor, predictor, data, pc, processed,
                feature_vector, prediction_result, risk_factors,
                recommendations, response, call, session>>

\* preprocessor.preprocess(data) of run r
StagePreprocess(r) ==
    /\ pc = "serving"
    /\ requests[r].pc = "received"
    /\ requests' =
          [requests EXCEPT ![r] =
              IF PreprocessRaises(requests[r].data)
              THEN [@ EXCEPT !.pc = "failed"]
              ELSE [@ EXCEPT !.pc = "preprocessed",
                             !.processed = PreprocessValue(preprocessor, requests[r].data)]]
    /\ StageFrame

\* predictor.predict(processed_data) of run r
StagePredict(r) ==
    /\ pc = "serving"
    /\ requests[r].pc = "preprocessed"
    /\ LET vector == FeatureVector(predictor, requests[r].processed)
       IN  requests' =
              [requests EXCEPT ![r] =
                  IF PredictRaises(predictor, requests[r].processed, vector)
                  THEN [@ EXCEPT !.pc = "predict_failed", !.feature_vector = vector]
                  ELSE [@ EXCEPT !.pc = "predicted", !.feature_vector = vector,
                                 !.prediction_result = predictor.model.outputs[vector]]]
    /\ StageFrame

\* analyze_risk_factors keeping the factors it finds in a list on the
\* preprocessor, which every run appends to and returns.
StageAnalyzeRiskOnSelf(r) ==
    /\ pc = "serving"
    /\ requests[r].pc = "predicted"
    /\ LET kept == IF "risk_factors" \in DOMAIN preprocessor
                   THEN preprocessor["risk_factors"] ELSE << >>
           found == kept \o AnalyzeRiskFactors(requests[r].data)
       IN  /\ preprocessor' =
                 ("risk_factors" :> found) @@
                    [k \in DOMAIN preprocessor \ {"risk_factors"} |-> preprocessor[k]]
           /\ requests' = [requests EXCEPT ![r] =
                              [@ EXCEPT !.pc = "analyzed", !.risk_factors = found]]
    /\ UNCHANGED <<models_dir, predictor, data, pc, processed,
                   feature_vector, prediction_result, risk_factors,
                   recommendations, response, call, session>>

\* preprocessor.analyze_risk_factors(data) of run r
StageAnalyzeRisk(r) ==
    /\ pc = "serving"
    /\ requests[r].pc = "predicted"
    /\ requests' =
          [requests EXCEPT ![r] =
              [@ EXCEPT !.pc = "analyzed",
                        !.risk_factors = AnalyzeRiskFactors(requests[r].data)]]
    /\ StageFrame

\* preprocessor.generate_recommendations(data, probability, risk_factors)
\* of run r
StageRecommend(r) ==
    /\ pc = "serving"
    /\ requests[r].pc = "analyzed"
    /\ requests' =
          [requests EXCEPT ![r] =
              [@ EXCEPT !.pc = "recommended",
                        !.recommendations =
                            GenerateRecommendations(requests[r].data,
                                requests[r].prediction_result.probability,
                                requests[r].risk_factors)]]
    /\ StageFrame

NextConcurrent ==
    \/ \E r \in RequestIds : StagePreprocess(r)
    \/ \E r \in RequestIds : StagePredict(r)
    \/ \E r \in RequestIds : StageAnalyzeRisk(r)
    \/ \E r \in RequestIds : StageRecommend(r)

SpecConcurrent == InitConcurrent /\ [][NextConcurrent]_vars

(***************************************************************************)
(* The questionnaire: st.session_state of one session.  A state is the     *)
(* session as one script run leaves it; an action is one run, from the     *)
(* button or widget the user operates to the end of the run that follows   *)
(* st.rerun().  render_question stores the value of the widget of the      *)
(* current question in answers on every run.                               *)
(***************************************************************************)
\* One entry of QUESTIONS: its id, its widget, and the values of the widget
\* the user is taken to choose among (the default first).
Question(id, type, kind, numbers, strings) ==
    [id |-> id, type |-> type,
     values |-> IF kind = "num" THEN { Edit(id, "num", n, "") : n \in numbers }
                ELSE { Edit(id, "str", 0, t) : t \in strings }]

QUESTIONS ==
    << Question("age", "number_input", "num", {200}, {}),
       Question("gender", "selectbox", "str", {}, {"Male"}),
       Question("academic_pressure", "slider", "num", {30, 50}, {}),
       Question("work_pressure", "slider", "num", {30}, {}),
       Question("cgpa", "number_input", "num", {70}, {}),
       Question("study_satisfaction", "slider", "num", {30}, {}),
       Question("job_satisfaction", "selectbox", "str", {},
                {"Not Applicable", "1 - Very Dissatisfied", "3 - Neutral"}),
       Question("work_study_hours", "slider", "num", {80}, {}),
       Question("financial_stress", "slider", "num", {30}, {}),
       Question("sleep_duration", "selectbox", "str", {}, {"Less than 5 hours"}),
       Question("dietary_habits", "selectbox", "str", {}, {"Unhealthy"}),
       Question("suicidal_thoughts", "selectbox", "str", {}, {"No", "Yes"}),
       Question("family_history", "selectbox", "str", {}, {"No"}),
       Question("city", "text_input", "str", {}, {""}),
       Question("profession", "selectbox", "str", {}, {"Student"}),
       Question("degree", "selectbox", "str", {}, {"High School"}) >>

\* QUESTIONS[current_question], current_question counted from 0.
CurrentQuestion(state) == QUESTIONS[state.current_question + 1]

\* render_question: the value of the widget is stored under the id of the
\* question.
RenderQuestion(state, value) ==
    [state EXCEPT !.answers = Apply(state.answers, value)]

\* The session state initialised at the top of the script; the key
\* prediction_result is absent (None here) until a result is stored.
FreshSession ==
    [current_question |-> 0, answers |-> Answers(<< >>, << >>),
     model_loaded |-> FALSE, prediction_complete |-> FALSE,
     prediction_result |-> None, shown |-> "question"]

\* A models directory without any artifact file.
EmptyModelsDir == Dir({}, FittedWidth, {}, FittedWidth, << >>)

InitApp ==
    /\ models_dir \in {DefaultModelsDir, EmptyModelsDir}
    /\ preprocessor = None
    /\ predictor = None
    /\ \E value \in QUESTIONS[1].values :
          session = RenderQuestion(FreshSession, value)
    /\ pc = "app"
    /\ data = BaseAnswers
    /\ processed = None
    /\ feature_vector = << >>
    /\ prediction_result = None
    /\ risk_factors = << >>
    /\ recommendations = << >>
    /\ response = None
    /\ call = None
    /\ requests = << >>

\* What a run that does not call make_prediction leaves alone.
AppFrame ==
    UNCHANGED <<models_dir, preprocessor, predictor, data, pc, processed,
                feature_vector, prediction_result, risk_factors,
                recommendations, response, call, requests>>

\* The questionnaire page is rendered (not prediction_complete, and
\* current_question < len(QUESTIONS)).
QuestionPage ==
    /\ pc = "app"
    /\ ~session.prediction_complete
    /\ session.current_question < Len(QUESTIONS)

\* The run that follows st.rerun(): the page of the state is rendered, and
\* on the questionnaire page the widget of the current question stores a
\* value.
Rerun(state) ==
    IF ~state.prediction_complete /\ state.current_question < Len(QUESTIONS)
    THEN { RenderQuestion([state EXCEPT !.shown = "question"], value) :
                value \in CurrentQuestion(state).values }
    ELSE { [state EXCEPT !.shown = IF state.prediction_result # None
                                   THEN "results" ELSE "nothing"] }

\* The user changes the widget of the current question; the run stores the
\* new value.
ChangeAnswer ==
    /\ QuestionPage
    /\ \E value \in CurrentQuestion(session).values :
          /\ Apply(session.answers, value) # session.answers
          /\ session' = RenderQuestion([session EXCEPT !.shown = "question"], value)
    /\ AppFrame

\* "Previous", disabled at the first question.
Previous ==
    /\ QuestionPage
    /\ session.current_question # 0
    /\ session' \in Rerun([session EXCEPT !.current_question = @ - 1])
    /\ AppFrame

\* "Reset"
Reset ==
    /\ QuestionPage
    /\ session' \in Rerun([session EXCEPT !.current_question = 0,
                                            !.answers = Answers(<< >>, << >>),
                                            !.prediction_complete = FALSE])
    /\ AppFrame

\* "Next" that is never disabled.
NextQuestionNeverDisabled ==
    /\ QuestionPage
    /\ IF Has(session.answers, CurrentQuestion(session).id)
       THEN session' \in Rerun([session EXCEPT !.current_question = @ + 1])
       ELSE session' = [session EXCEPT !.shown = "answer the current question"]
    /\ AppFrame

\* "Next", disabled at the last question.
NextQuestion ==
    /\ QuestionPage
    /\ session.current_question # Len(QUESTIONS) - 1
    /\ IF Has(session.answers, CurrentQuestion(session).id)
       THEN session' \in Rerun([session EXCEPT !.current_question = @ + 1])
       ELSE session' = [session EXCEPT !.shown = "answer the current question"]
    /\ AppFrame

\* The dictionary make_prediction returns for a class and a probability.
PredictionResult(answers, prediction, probability) ==
    LET factors == AnalyzeRiskFactors(answers)
    IN  [prediction |-> prediction, probability |-> probability,
         confidence |-> AppConfidence(probability),
         risk_level |-> AppRiskLevel(probability),
         risk_factors |-> factors,
         recommendations |-> GenerateRecommendations(answers, probability, factors)]

\* What make_prediction reports when it returns None, "" when it returns a
\* result.
PredictionFailure(self_predictor, self_preprocessor, answers) ==
    IF self_predictor = None \/ self_preprocessor = None
    THEN "Models could not be loaded"
    ELSE IF PreprocessRaises(answers) THEN "Prediction failed"
    ELSE IF PredictRaises(self_predictor, PreprocessValue(self_preprocessor, answers),
                          FeatureVector(self_predictor,
                                        PreprocessValue(self_preprocessor, answers)))
    THEN "Prediction failed"
    ELSE ""

\* "Complete Assessment" that marks the assessment complete before it asks
\* for the prediction.
CompleteAssessmentMarksFirst ==
    /\ QuestionPage
    /\ session.current_question = Len(QUESTIONS) - 1
    /\ LET missing_answers ==
              { i \in 1..Len(QUESTIONS) : ~Has(session.answers, QUESTIONS[i].id) }
           loaded == ~LoadModelsRaises(models_dir)
           self_predictor == IF loaded THEN MentalHealthPredictorInit(models_dir) ELSE None
           self_preprocessor == IF loaded THEN DataPreprocessorInit ELSE None
           failure == PredictionFailure(self_predictor, self_preprocessor, session.answers)
       IN  IF missing_answers # {}
           THEN /\ session' = [session EXCEPT !.shown = "Please answer all questions"]
                /\ UNCHANGED <<predictor, preprocessor>>
           ELSE /\ predictor' = self_predictor
                /\ preprocessor' = self_preprocessor
                /\ IF failure # ""
                   THEN session' = [session EXCEPT !.shown = failure,
                                                   !.prediction_complete = TRUE]
                   ELSE \E prediction \in {0, 1}, probability \in Probabilities :
                           session' \in Rerun(
                               [session EXCEPT
                                   !.prediction_complete = TRUE,
                                   !.prediction_result =
                                       PredictionResult(session.answers, prediction,
                                                        probability)])
    /\ UNCHANGED <<models_dir, data, pc, processed, feature_vector,
                   prediction_result, risk_factors, recommendations, response,
                   call, requests>>

\* "Complete Assessment", disabled before the last question: the answers
\* are checked for completeness, make_prediction loads the (cached) models
\* and runs the pipeline, and a result, when there is one, is stored.
CompleteAssessment ==
    /\ QuestionPage
    /\ session.current_question = Len(QUESTIONS) - 1
    /\ LET missing_answers ==
              { i \in 1..Len(QUESTIONS) : ~Has(session.answers, QUESTIONS[i].id) }
           loaded == ~LoadModelsRaises(models_dir)
           self_predictor == IF loaded THEN MentalHealthPredictorInit(models_dir) ELSE None
           self_preprocessor == IF loaded THEN DataPreprocessorInit ELSE None
           failure == PredictionFailure(self_predictor, self_preprocessor, session.answers)
       IN  IF missing_answers # {}
           THEN /\ session' = [session EXCEPT !.shown = "Please answer all questions"]
                /\ UNCHANGED <<predictor, preprocessor>>
           ELSE /\ predictor' = self_predictor
                /\ preprocessor' = self_preprocessor
                /\ IF failure # ""
                   THEN session' = [session EXCEPT !.shown = failure]
                   ELSE \E prediction \in {0, 1}, probability \in Probabilities :
                           session' \in Rerun(
                               [session EXCEPT
                                   !.prediction_complete = TRUE,
                                   !.prediction_result =
                                       PredictionResult(session.answers, prediction,
                                                        probability)])
    /\ UNCHANGED <<models_dir, data, pc, processed, feature_vector,
                   prediction_result, risk_factors, recommendations, response,
                   call, requests>>

\* "Take Assessment Again" of the results page, which is rendered when
\* prediction_complete holds and a result is stored.
TakeAssessmentAgain ==
    /\ pc = "app"
    /\ session.prediction_complete
    /\ session.prediction_result # None
    /\ session' \in Rerun([session EXCEPT !.current_question = 0,
                                            !.answers = Answers(<< >>, << >>),
                                            !.prediction_complete = FALSE,
                                            !.prediction_result = None])
    /\ AppFrame

\* The runs of a session.  No run of CompleteAssessment stores a result
\* (float() in preprocess rejects every option of the job_satisfaction
\* selectbox), so the results page and TakeAssessmentAgain are never
\* offered to a session that starts fresh.
NextApp ==
    \/ ChangeAnswer
    \/ Previous
    \/ Reset
    \/ NextQuestion
    \/ CompleteAssessment

SpecApp == InitApp /\ [][NextApp]_vars

(***************************************************************************)
(* The claims.                                                             *)
(***************************************************************************)
\* Raw answers whose eight numeric answers are all present and numbers.
ValidAnswers(d) == NumericKeys \subseteq DOMAIN d.num

Preprocessed ==
    pc \in {"preprocessed", "preprocessed_again", "predicted", "predict_failed",
            "analyzed", "recommended", "done"}

\* C1: for valid raw answers preprocess does not raise, and the mapping it
\* returns holds every one of the 15 default feature columns.
C1_EveryFeaturePresent ==
    /\ (ValidAnswers(data) /\ pc # "received") => pc # "failed"
    /\ Preprocessed =>
          \A i \in 1..Len(DefaultFeatureColumns) :
              DefaultFeatureColumns[i] \in DOMAIN processed

C1_Witness ==
    /\ pc = "preprocessed"
    /\ ValidAnswers(data)
    /\ data = ScenarioAnswers
    /\ Len(predictor.feature_columns) = 15
    /\ "Risk_Score" \in DOMAIN processed

Analyzed == pc \in {"analyzed", "recommended", "done"}

Recommended == pc \in {"recommended", "done"}

\* Every answer a rule compares with a number is a number or absent, as the
\* RawAnswers of the specification are.
TypedAnswers(d) == \A k \in ComparedKeys : k \notin DOMAIN d.str

CriticalFactors(factors) == { i \in 1..Len(factors) : factors[i].impact = "Critical" }

C4_AtMostTenNoDuplicates ==
    Recommended =>
        /\ Len(recommendations) <= 10
        /\ \A i, j \in 1..Len(recommendations) :
              i # j => recommendations[i] # recommendations[j]

\* The cap has cut the list and a repeated pair has been removed.
C4_Witness ==
    /\ pc = "recommended"
    /\ Len(recommendations) = 10
    /\ Len(AllRecommendations(prediction_result.probability, risk_factors)) > 10
    /\ \E i, j \in 1..Len(risk_factors) :
          /\ risk_factors[i].factor = <<"Low", "Study", "Satisfaction">>
          /\ risk_factors[j].factor = <<"Low", "Job", "Satisfaction">>

\* The advisory pair of the category each factor name of the analyzer
\* belongs to.
ExpectedAdvice(factor) ==
    CASE factor = <<"High", "Academic", "Pressure">> -> AcademicPressureAdvice
      [] factor = <<"High", "Financial", "Stress">> -> FinancialStressAdvice
      [] factor = <<"Insufficient", "Sleep">> -> SleepAdvice
      [] factor = <<"Unhealthy", "Diet">> -> DietAdvice
      [] factor = <<"History", "of", "Suicidal", "Thoughts">> -> SuicidalThoughtsAdvice
      [] factor = <<"Family", "History", "of", "Mental", "Illness">> -> FamilyHistoryAdvice
      [] factor = <<"High", "Work", "Pressure">> -> WorkPressureAdvice
      [] factor = <<"Low", "Study", "Satisfaction">> -> SatisfactionAdvice
      [] factor = <<"Low", "Job", "Satisfaction">> -> SatisfactionAdvice
      [] factor = <<"Low", "Academic", "Performance">> -> AcademicPerformanceAdvice
      [] OTHER -> << >>

\* C5 as claimed: both advisory strings of every factor passed to
\* generate_recommendations are in the returned list.
C5_BothStringsReturned ==
    Recommended =>
        \A i \in 1..Len(risk_factors) :
            Range(ExpectedAdvice(risk_factors[i].factor)) \subseteq Range(recommendations)

\* C5 as amended: both advisory strings of every factor passed to
\* generate_recommendations are in the returned list whenever that list has
\* fewer than 10 entries, and that list then holds the three seed strings
\* and exactly two strings for each category present; a list of 10 may have
\* lost strings to the cap.
C5_BothStringsUnlessCapped ==
    (Recommended /\ Len(recommendations) < MaxRecommendations) =>
        /\ \A i \in 1..Len(risk_factors) :
              Range(ExpectedAdvice(risk_factors[i].factor)) \subseteq Range(recommendations)
        /\ Len(recommendations) =
              3 + 2 * Cardinality({ ExpectedAdvice(risk_factors[i].factor) :
                                        i \in 1..Len(risk_factors) })

C5_Witness ==
    /\ pc = "recommended"
    /\ Len(recommendations) < MaxRecommendations
    /\ Len(risk_factors) = 3
    /\ \E i \in 1..Len(risk_factors) :
          risk_factors[i].factor = <<"History", "of", "Suicidal", "Thoughts">>
    /\ Range(SuicidalThoughtsAdvice) \subseteq Range(recommendations)

\* The rules of the analyzer in the order the claim fixes, each with the
\* factor it emits.
RuleOrder ==
    << <<"High", "Academic", "Pressure">>, <<"High", "Financial", "Stress">>,
       <<"Insufficient", "Sleep">>, <<"Unhealthy", "Diet">>,
       <<"History", "of", "Suicidal", "Thoughts">>,
       <<"Family", "History", "of", "Mental", "Illness">>,
       <<"High", "Work", "Pressure">>, <<"Low", "Study", "Satisfaction">>,
       <<"Low", "Job", "Satisfaction">>, <<"Low", "Academic", "Performance">> >>

\* The condition of each rule on typed raw answers (an absent number is 0,
\* an absent string the default of the code).
RuleHolds(d, i) ==
    CASE i = 1  -> DictGet(d.num, "academic_pressure", 0) >= 40
      [] i = 2  -> DictGet(d.num, "financial_stress", 0) >= 40
      [] i = 3  -> DictGet(d.str, "sleep_duration", "7-8 hours")
                        \in {"Less than 5 hours", "5-6 hours"}
      [] i = 4  -> DictGet(d.str, "dietary_habits", "Moderate") = "Unhealthy"
      [] i = 5  -> DictGet(d.str, "suicidal_thoughts", "No") = "Yes"
      [] i = 6  -> DictGet(d.str, "family_history", "No") = "Yes"
      [] i = 7  -> DictGet(d.num, "work_pressure", 0) >= 40
      [] i = 8  -> DictGet(d.num, "study_satisfaction", 0) <= 20
      [] i = 9  -> /\ DictGet(d.num, "job_satisfaction", 0) <= 20
                   /\ DictGet(d.num, "job_satisfaction", 0) > 0
      [] i = 10 -> DictGet(d.num, "cgpa", 0) < 60

FactorNames(factors) == [i \in 1..Len(factors) |-> factors[i].factor]

FactorImpacts(factors) == [i \in 1..Len(factors) |-> factors[i].impact]

\* C6: on typed raw answers analyze_risk_factors returns one factor for each
\* rule whose condition holds and none for the others, in the order academic
\* pressure, financial stress, sleep, diet, suicidal thoughts, family
\* history, work pressure, study satisfaction, job satisfaction, academic
\* performance; the scenario of the specification gives its six factors.
C6_OneFactorPerRuleInOrder ==
    (Analyzed /\ TypedAnswers(data)) =>
        /\ LET Holds(name) ==
                  \E r \in 1..Len(RuleOrder) : RuleOrder[r] = name /\ RuleHolds(data, r)
           IN  FactorNames(risk_factors) = SelectSeq(RuleOrder, Holds)
        /\ data = ScenarioAnswers =>
              /\ FactorNames(risk_factors) = SubSeq(RuleOrder, 1, 6)
              /\ FactorImpacts(risk_factors) =
                    <<"High", "High", "High", "Medium", "Critical", "Medium">>

C6_Witness ==
    /\ pc = "analyzed"
    /\ data = ScenarioAnswers
    /\ Len(risk_factors) = 6
    /\ risk_factors[5].impact = "Critical"

\* The probability of the request in hand against a threshold of t tenths.
Above(t) == 10 * prediction_result.probability > t * ProbDen

Below(t) == 10 * prediction_result.probability < t * ProbDen

At(t) == 10 * prediction_result.probability = t * ProbDen

\* C7: risk_level is High when probability > 0.7, Medium when
\* 0.4 < probability <= 0.7 and Low when probability <= 0.4, so 0.7 is Medium
\* and 0.4 is Low, in the record of diagnose and in that of make_prediction.
C7_RiskLevelBands ==
    pc = "done" =>
        /\ Above(7) => response.risk_level = "High"
        /\ (Above(4) /\ ~Above(7)) => response.risk_level = "Medium"
        /\ ~Above(4) => response.risk_level = "Low"
        /\ At(7) => response.risk_level = "Medium"
        /\ At(4) => response.risk_level = "Low"

C7_Witness ==
    /\ pc = "done"
    /\ At(7)
    /\ response.risk_level = "Medium"

\* C8: confidence is High when probability > 0.8 or < 0.2, otherwise Medium
\* when probability > 0.6 or < 0.4, otherwise Low; one label for every
\* probability; 0.2 and 0.8 are Medium, 0.4, 0.5 and 0.6 are Low.
C8_ConfidenceBands ==
    pc = "done" =>
        /\ response.confidence \in {"High", "Medium", "Low"}
        /\ (Above(8) \/ Below(2)) <=> response.confidence = "High"
        /\ (~(Above(8) \/ Below(2)) /\ (Above(6) \/ Below(4)))
              <=> response.confidence = "Medium"
        /\ (~Above(6) /\ ~Below(4)) <=> response.confidence = "Low"
        /\ (At(2) \/ At(8)) => response.confidence = "Medium"
        /\ (At(4) \/ At(5) \/ At(6)) => response.confidence = "Low"

C8_Witness ==
    /\ pc = "done"
    /\ At(8)
    /\ response.confidence = "Medium"
    /\ response.risk_level = "High"

\* C9: the first three entries of the returned list are the seed advice of
\* the probability band, in order: crisis for p > 0.7, moderate for
\* 0.4 < p <= 0.7, maintenance for p <= 0.4.
C9_SeedFirst ==
    Recommended =>
        /\ Len(recommendations) >= 3
        /\ SubSeq(recommendations, 1, 3) =
              IF Above(7) THEN CrisisSeed
              ELSE IF Above(4) THEN ModerateSeed
              ELSE MaintenanceSeed
        /\ At(7) => recommendations[1] = ModerateSeed[1]
        /\ At(4) => recommendations[1] = MaintenanceSeed[1]

C9_Witness ==
    /\ pc = "recommended"
    /\ At(7)
    /\ Len(risk_factors) > 0
    /\ SubSeq(recommendations, 1, 3) = ModerateSeed

\* C10: a call of preprocess leaves the raw answers and the lookup tables of
\* the preprocessor as they were, and a second call on the same raw answers
\* returns the mapping the first returned.
C10_PreprocessPure ==
    [][ pc' \in {"preprocessed", "preprocessed_again", "failed"} =>
            /\ data' = data
            /\ preprocessor' = preprocessor
            /\ pc' = "preprocessed_again" => processed' = processed ]_vars

C10_Witness ==
    /\ pc = "preprocessed_again"
    /\ data = ScenarioAnswers
    /\ preprocessor = DataPreprocessorInit
    /\ processed = PreprocessValue(preprocessor, data)

\* C11 as claimed: preprocess followed by predict completes without error on
\* the complete answers of test_model_loading, whose job_satisfaction is the
\* questionnaire option 'Not Applicable', once the artifacts have loaded.
C11_NotApplicableCompletes ==
    (data = NotApplicableAnswers /\ predictor # None)
        => pc \notin {"failed", "predict_failed"}

\* The answer each rule of the analyzer compares with a number, if any.
RuleKey ==
    << "academic_pressure", "financial_stress", "", "", "", "", "work_pressure",
       "study_satisfaction", "job_satisfaction", "cgpa" >>

\* C12 as claimed: a rule that fails does not abort the others; the factor
\* of every rule that can be evaluated and whose condition holds is returned.
C12_OtherRulesStillReturned ==
    Analyzed =>
        \A i \in 1..Len(RuleOrder) :
            (RuleKey[i] \notin DOMAIN data.str /\ RuleHolds(data, i))
                => RuleOrder[i] \in Range(FactorNames(risk_factors))

\* C13: when a rule of analyze_risk_factors fails (an answer it compares
\* with a number is a string), the call returns the empty list, whatever
\* factors the rules before the failing one had collected, and the request
\* goes on to the recommendations.
C13_ErrorReturnsEmpty ==
    /\ (Analyzed /\ ~TypedAnswers(data)) => risk_factors = << >>
    /\ (pc = "recommended" /\ ~TypedAnswers(data)) =>
          recommendations = SeedRecommendations(prediction_result.probability)

C13_Witness ==
    /\ pc = "analyzed"
    /\ data = SetStr(EmployedAnswers, "job_satisfaction", "3")
    /\ AcademicPressureRule(data) # << >>
    /\ risk_factors = << >>

\* C14: for each of the eight numeric passthrough fields the mapping holds,
\* under the feature-vector name, the number given (the number a numeric
\* string denotes) when the field is present and 0.0 when it is missing; a
\* missing field never makes preprocess raise.
C14_NumericPassthrough ==
    /\ Preprocessed =>
          \A f \in NumericKeys :
              /\ f \in DOMAIN data.num => processed[feature_mapping[f]] = data.num[f]
              /\ f \in DOMAIN data.str =>
                    processed[feature_mapping[f]] = NumericStrings[data.str[f]]
              /\ ~Has(data, f) => processed[feature_mapping[f]] = 0
    /\ pc = "failed" =>
          \E f \in NumericKeys :
              f \in DOMAIN data.str /\ data.str[f] \notin DOMAIN NumericStrings

C14_Witness ==
    /\ pc = "preprocessed"
    /\ data = Remove(BaseAnswers, "cgpa")
    /\ processed["CGPA"] = 0
    /\ processed["Age"] = 220

\* C15: a failure inside _calculate_risk_score is not raised: the call
\* returns 0.0; preprocess raises only when float() fails on a numeric
\* answer, and the mapping it returns always carries a Risk_Score.
C15_RiskScoreFailureScoresZero ==
    /\ (pc = "returned" /\ call.method = "_calculate_risk_score") =>
          /\ ~call.raised
          /\ (\E k \in RiskScoreKeys : k \in DOMAIN call.args.str) => call.result = 0
          /\ (\A k \in RiskScoreKeys : k \notin DOMAIN call.args.str) =>
                call.result =
                      2 * DictGet(call.args.num, "Academic Pressure", 0)
                    + 2 * DictGet(call.args.num, "Financial Stress", 0)
                    + (50 - DictGet(call.args.num, "Sleep_Hours", 75))
                    + (40 - DictGet(call.args.num, "Diet_Score", 20))
                    + 3 * DictGet(call.args.num, "Have you ever had suicidal thoughts ?_encoded", 0)
                    + DictGet(call.args.num, "Family History of Mental Illness_encoded", 0)
    /\ (pc = "returned" /\ call.method = "preprocess") =>
          /\ call.raised =>
                \E f \in NumericKeys :
                    f \in DOMAIN call.args.str
                        /\ call.args.str[f] \notin DOMAIN NumericStrings
          /\ ~call.raised => "Risk_Score" \in DOMAIN call.result

C15_Witness ==
    /\ pc = "returned"
    /\ call.method = "_calculate_risk_score"
    /\ "Sleep_Hours" \in DOMAIN call.args.str
    /\ "Academic Pressure" \in DOMAIN call.args.num
    /\ call.result = 0

\* A call of predict has built its feature vector.
PredictCalled ==
    pc \in {"predicted", "predict_failed", "analyzed", "recommended", "done"}

\* C16: the vector predict hands to the scaler has one entry per name of
\* feature_columns, in that order: the value the mapping holds under the
\* name, or 0.0 when the mapping lacks it, which by itself does not make
\* predict raise; keys of the mapping that are no feature column are ignored.
C16_VectorFollowsFeatureColumns ==
    PredictCalled =>
        /\ Len(feature_vector) = Len(predictor.feature_columns)
        /\ \A i \in 1..Len(predictor.feature_columns) :
              feature_vector[i] =
                  IF predictor.feature_columns[i] \in DOMAIN processed
                  THEN processed[predictor.feature_columns[i]] ELSE 0
        /\ ( /\ Len(predictor.feature_columns) = predictor.scaler.n_features_in
             /\ predictor.scaler.n_features_in = predictor.model.n_features_in )
           => pc # "predict_failed"

C16_Witness ==
    /\ pc = "predicted"
    /\ data = ScenarioAnswers
    /\ predictor.feature_columns = UnknownColumns
    /\ "City_encoded" \notin DOMAIN processed
    /\ feature_vector[13] = 0
    /\ feature_vector[11] = 280

\* C17 as claimed: predict fails when a declared feature name is absent from
\* the mapping or the number of feature columns differs from what the
\* scaler expects.
C17_MismatchFails ==
    ( /\ PredictCalled
      /\ \/ \E i \in 1..Len(predictor.feature_columns) :
                predictor.feature_columns[i] \notin DOMAIN processed
         \/ Len(predictor.feature_columns) # predictor.scaler.n_features_in )
    => pc = "predict_failed"

\* C17 as amended: predict fails, returning no result, exactly when the
\* number of feature columns differs from the width the scaler was fitted
\* on or that width from the classifier's; a declared feature name absent
\* from the mapping is filled with 0.0 and predict returns a result.
C17_WidthMismatchFails ==
    /\ PredictCalled =>
          ( pc = "predict_failed" <=>
              \/ Len(predictor.feature_columns) # predictor.scaler.n_features_in
              \/ predictor.scaler.n_features_in # predictor.model.n_features_in )
    /\ pc = "predict_failed" => prediction_result = None
    /\ pc = "predicted" => prediction_result # None

C17_Witness ==
    /\ pc = "predict_failed"
    /\ predictor.feature_columns = ShortColumns
    /\ predictor.scaler.n_features_in = FittedWidth
    /\ prediction_result = None

NoCandidate(files) == \A i \in 1..Len(files) : files[i] \notin DOMAIN models_dir

\* C18: a predictor exists only with both a model and a scaler: when no
\* candidate model file or no candidate scaler file exists, startup fails,
\* the predictor (and the preprocessor) stay None, no request is served, and
\* /health reports "unhealthy" with model_loaded false.
C18_NoPredictorWithoutArtifacts ==
    /\ predictor # None => (predictor.model # None /\ predictor.scaler # None)
    /\ (NoCandidate(model_files) \/ NoCandidate(scaler_files)) =>
          /\ predictor = None
          /\ preprocessor = None
          /\ pc \in {"startup", "unloaded", "health_before_startup", "health_unloaded",
                     "rejected", "diagnose_error"}
    /\ pc = "health_unloaded" =>
          response = [status |-> "unhealthy", model_loaded |-> FALSE]
    /\ pc \in {"health_before_startup", "health_ready", "health_unloaded"} =>
          /\ response.model_loaded <=> predictor # None
          /\ response.status = "healthy" <=> predictor # None

C18_Witness ==
    /\ pc = "health_unloaded"
    /\ ~NoCandidate(model_files)
    /\ NoCandidate(scaler_files)
    /\ predictor = None
    /\ response.status = "unhealthy"

\* The values the questionnaire and the encoders know for profession.
valid_professions == DOMAIN default_encoders["Profession"]

\* C19 as claimed: a request that reaches preprocess through /diagnose has
\* every numeric field inside its declared range and gender, sleep_duration,
\* dietary_habits, suicidal_thoughts, family_history and profession inside
\* their enumerations.
C19_InvalidNeverPreprocessed ==
    pc = "validated" =>
        /\ \A f \in NumericKeys :
              /\ f \in DOMAIN data.num
              /\ data.num[f] >= FieldRange[f].ge
              /\ data.num[f] <= FieldRange[f].le
        /\ \A f \in DOMAIN Validators :
              f \in DOMAIN data.str /\ data.str[f] \in Validators[f]
        /\ "profession" \in DOMAIN data.str
        /\ data.str["profession"] \in valid_professions

\* C20: when generate_recommendations fails inside (a risk factor without a
\* 'factor' key, a probability that cannot be compared with a number) it
\* does not raise and returns the list of the one fallback string.
C20_FailureReturnsFallback ==
    (pc = "returned" /\ call.method = "generate_recommendations") =>
        /\ ~call.raised
        /\ ( \/ ~call.args.probability.number
             \/ \E i \in 1..Len(call.args.risk_factors) :
                    "factor" \notin DOMAIN call.args.risk_factors[i] )
           => /\ Len(call.result) = 1
              /\ call.result =
                    << "Please consult with a mental health professional for personalized advice" >>

C20_Witness ==
    /\ pc = "returned"
    /\ call.method = "generate_recommendations"
    /\ call.args.probability.number
    /\ Len(call.args.risk_factors) = 2
    /\ "factor" \in DOMAIN call.args.risk_factors[1]
    /\ "factor" \notin DOMAIN call.args.risk_factors[2]
    /\ call.result = FallbackRecommendations

\* The categorical answer under key, or a value no table lists when the key
\* is absent.
Categorical(d, key) == IF key \in DOMAIN d.str THEN d.str[key] ELSE "(missing)"

\* C22: preprocess maps sleep_duration to hours by the table Less than 5
\* hours 4, 5-6 hours 5.5, 7-8 hours 7.5, More than 8 hours 9, Others 6.0,
\* and an unrecognized or missing value to 7.5; dietary_habits by Unhealthy
\* 1, Moderate 2, Healthy 3, Others 2, anything else 2; gender, profession,
\* suicidal_thoughts and family_history by their integer tables, anything
\* else 0.
C22_CategoricalTables ==
    Preprocessed =>
        /\ processed["Sleep_Hours"] =
              (LET v == Categorical(data, "sleep_duration")
               IN  CASE v = "Less than 5 hours" -> 40
                     [] v = "5-6 hours"         -> 55
                     [] v = "7-8 hours"         -> 75
                     [] v = "More than 8 hours" -> 90
                     [] v = "Others"            -> 60
                     [] OTHER                   -> 75)
        /\ processed["Diet_Score"] =
              (LET v == Categorical(data, "dietary_habits")
               IN  CASE v = "Unhealthy" -> 10
                     [] v = "Moderate"  -> 20
                     [] v = "Healthy"   -> 30
                     [] v = "Others"    -> 20
                     [] OTHER           -> 20)
        /\ processed["Gender_encoded"] =
              (LET v == Categorical(data, "gender")
               IN  CASE v = "Male" -> 0 [] v = "Female" -> 10
                     [] v = "Other" -> 20 [] OTHER -> 0)
        /\ processed["Profession_encoded"] =
              (LET v == Categorical(data, "profession")
               IN  CASE v = "Student" -> 0 [] v = "Employee" -> 10
                     [] v = "Self-employed" -> 20 [] v = "Unemployed" -> 30
                     [] v = "Other" -> 40 [] OTHER -> 0)
        /\ processed["Have you ever had suicidal thoughts ?_encoded"] =
              (IF Categorical(data, "suicidal_thoughts") = "Yes" THEN 10 ELSE 0)
        /\ processed["Family History of Mental Illness_encoded"] =
              (IF Categorical(data, "family_history") = "Yes" THEN 10 ELSE 0)

C22_Witness ==
    /\ pc = "preprocessed"
    /\ Categorical(data, "sleep_duration") = "Unknown"
    /\ processed["Sleep_Hours"] = 75
    /\ processed["Diet_Score"] = 30
    /\ processed["Gender_encoded"] = 10

\* What preprocess returns for the answers of the state with one
\* categorical answer replaced, or removed when value is "(missing)".
Varied(key, value) ==
    PreprocessValue(preprocessor,
        IF value = "(missing)" THEN Remove(data, key) ELSE SetStr(data, key, value))

\* C23: of two inputs that differ only in sleep_duration the one mapped to
\* fewer sleep hours has the strictly larger Risk_Score, and of two that
\* differ only in dietary_habits the one with the lower diet score has the
\* strictly larger Risk_Score.
C23_SignConventions ==
    pc = "preprocessed" =>
        /\ \A v \in DOMAIN sleep_mapping \cup {"Unknown", "(missing)"} :
              LET other == Varied("sleep_duration", v)
              IN  /\ other["Sleep_Hours"] < processed["Sleep_Hours"] =>
                        other["Risk_Score"] > processed["Risk_Score"]
                  /\ other["Sleep_Hours"] > processed["Sleep_Hours"] =>
                        other["Risk_Score"] < processed["Risk_Score"]
        /\ \A v \in DOMAIN diet_mapping \cup {"Unknown", "(missing)"} :
              LET other == Varied("dietary_habits", v)
              IN  /\ other["Diet_Score"] < processed["Diet_Score"] =>
                        other["Risk_Score"] > processed["Risk_Score"]
                  /\ other["Diet_Score"] > processed["Diet_Score"] =>
                        other["Risk_Score"] < processed["Risk_Score"]

C23_Witness ==
    /\ pc = "preprocessed"
    /\ data = ScenarioAnswers
    /\ processed["Sleep_Hours"] = 40
    /\ Varied("sleep_duration", "More than 8 hours")["Risk_Score"]
            = processed["Risk_Score"] - 50
    /\ Varied("dietary_habits", "Healthy")["Risk_Score"]
            = processed["Risk_Score"] - 20

\* The positions of the returned factors that carry the given name.
FactorsNamed(name) == { i \in 1..Len(risk_factors) : risk_factors[i].factor = name }

\* The answer each pressure rule reads.
PressureKeys ==
    << "academic_pressure", "financial_stress", "work_pressure" >>

PressureFactors ==
    << <<"High", "Academic", "Pressure">>, <<"High", "Financial", "Stress">>,
       <<"High", "Work", "Pressure">> >>

\* C24: on typed raw answers, for academic_pressure, financial_stress and
\* work_pressure alike, the factor of the field is returned exactly when the
\* value is at least 4 (an absent value counts as 0), with the value it was
\* given, and its impact is "High" when the value is at least 5 and
\* "Medium" otherwise.
C24_PressureThresholds ==
    (Analyzed /\ TypedAnswers(data)) =>
        \A r \in 1..Len(PressureKeys) :
            LET value == DictGet(data.num, PressureKeys[r], 0)
                hits  == FactorsNamed(PressureFactors[r])
            IN  /\ Cardinality(hits) = (IF value >= 40 THEN 1 ELSE 0)
                /\ \A i \in hits :
                      /\ risk_factors[i].value = value
                      /\ risk_factors[i].impact =
                            (IF value >= 50 THEN "High" ELSE "Medium")

C24_Witness ==
    /\ pc = "analyzed"
    /\ DictGet(data.num, "work_pressure", 0) = 40
    /\ DictGet(data.num, "financial_stress", 0) = 20
    /\ \E i \in FactorsNamed(<<"High", "Work", "Pressure">>) :
          risk_factors[i].impact = "Medium"
    /\ FactorsNamed(<<"High", "Financial", "Stress">>) = {}

\* C25: on typed raw answers the "Low Job Satisfaction" factor is returned,
\* with impact "Medium", exactly when 0 < job_satisfaction <= 2; the value 0
\* (and an absent answer, read as 0) never returns it.
C25_JobSatisfactionRule ==
    (Analyzed /\ TypedAnswers(data)) =>
        LET value == DictGet(data.num, "job_satisfaction", 0)
            hits  == FactorsNamed(<<"Low", "Job", "Satisfaction">>)
        IN  /\ Cardinality(hits) = (IF 0 < value /\ value <= 20 THEN 1 ELSE 0)
            /\ value = 0 => hits = {}
            /\ \A i \in hits :
                  /\ risk_factors[i].impact = "Medium"
                  /\ risk_factors[i].value = value

C25_Witness ==
    /\ pc = "analyzed"
    /\ "job_satisfaction" \in DOMAIN data.num
    /\ data.num["job_satisfaction"] = 0
    /\ DictGet(data.num, "study_satisfaction", 0) = 20
    /\ FactorsNamed(<<"Low", "Job", "Satisfaction">>) = {}
    /\ FactorsNamed(<<"Low", "Study", "Satisfaction">>) # {}

\* The advisory strings of the factors from position i on, in list order.
RECURSIVE AdviceInOrder(_, _)
AdviceInOrder(factors, i) ==
    IF i > Len(factors) THEN << >>
    ELSE ExpectedAdvice(factors[i].factor) \o AdviceInOrder(factors, i + 1)

\* The seed strings of the probability band followed by the advisory
\* strings of the factors passed in.
Candidates ==
    (IF Above(7) THEN CrisisSeed ELSE IF Above(4) THEN ModerateSeed ELSE MaintenanceSeed)
        \o AdviceInOrder(risk_factors, 1)

\* The positions of a sequence whose entry does not occur earlier in it.
FirstOccurrences(seq) ==
    { i \in 1..Len(seq) : \A j \in 1..(i - 1) : seq[j] # seq[i] }

\* C27: the list generate_recommendations returns is the first 10 entries
\* of the seed strings followed by the advisory strings of the factors in
\* input order, with repeated strings dropped and each string kept at its
\* first occurrence.
C27_FirstTenOfDeduplicated ==
    Recommended =>
        LET all   == Candidates
            first == FirstOccurrences(all)
            rank  == [i \in first |-> Cardinality({ j \in first : j <= i })]
        IN  /\ Len(recommendations) =
                  (IF Cardinality(first) < 10 THEN Cardinality(first) ELSE 10)
            /\ \A i \in first :
                  rank[i] <= 10 => recommendations[rank[i]] = all[i]

C27_Witness ==
    /\ pc = "recommended"
    /\ FactorNames(risk_factors) =
          << <<"Low", "Study", "Satisfaction">>, <<"Low", "Job", "Satisfaction">>,
             <<"Low", "Academic", "Performance">> >>
    /\ Len(Candidates) = 9
    /\ Len(recommendations) = 7
    /\ recommendations[6] = AcademicPerformanceAdvice[1]

\* C26 as claimed: a /diagnose request served while predictor or
\* preprocessor is None is answered with status 503 and the detail "Models
\* not loaded. Please try again later.", and with no other status.
C26_UnloadedAnswers503 ==
    pc = "diagnose_error" =>
        /\ response.status_code = 503
        /\ response.detail = "Models not loaded. Please try again later."

\* The locals of a run of the pipeline on answers d that is alone on the
\* objects startup left behind, once it has come to the stage at.
Alone(d, at) ==
    LET self_pre  == DataPreprocessorInit
        self_pred == MentalHealthPredictorInit(models_dir)
        p  == PreprocessValue(self_pre, d)
        v  == FeatureVector(self_pred, p)
        o  == self_pred.model.outputs[v]
        f  == AnalyzeRiskFactors(d)
        done(stages) == at \in stages
    IN  [request |-> d, data |-> d, pc |-> at,
         processed |->
            IF done({"preprocessed", "predicted", "analyzed", "recommended"})
            THEN p ELSE None,
         feature_vector |->
            IF done({"predicted", "analyzed", "recommended"}) THEN v ELSE << >>,
         prediction_result |->
            IF done({"predicted", "analyzed", "recommended"}) THEN o ELSE None,
         risk_factors |-> IF done({"analyzed", "recommended"}) THEN f ELSE << >>,
         recommendations |->
            IF done({"recommended"})
            THEN GenerateRecommendations(d, o.probability, f) ELSE << >>]

\* C21: however the stages of two runs that share the predictor and the
\* preprocessor interleave, the locals of each run are at every stage those
\* of the same run made alone, the answers each run was given are as they
\* were sent, a run that fails on its answers is a run that fails alone, and
\* the two shared objects are as startup left them.
C21_RunsDoNotInterfere ==
    pc = "serving" =>
        /\ preprocessor = DataPreprocessorInit
        /\ predictor = MentalHealthPredictorInit(models_dir)
        /\ \A r \in RequestIds :
              /\ requests[r] = Alone(requests[r].request, requests[r].pc)
              /\ requests[r].pc = "failed" => PreprocessRaises(requests[r].request)
              /\ PreprocessRaises(requests[r].request) =>
                    requests[r].pc \in {"received", "failed"}
              /\ requests[r].pc # "predict_failed"

C21_Witness ==
    /\ pc = "serving"
    /\ requests[1].pc = "recommended"
    /\ requests[2].pc = "analyzed"
    /\ requests[1].request = ScenarioAnswers
    /\ requests[2].request = EmployedAnswers
    /\ requests[1].prediction_result # requests[2].prediction_result
    /\ Len(requests[1].risk_factors) = 6
    /\ Len(requests[2].risk_factors) = 1

\* Every question of the questionnaire has an answer stored.
AllAnswered ==
    \A i \in 1..Len(QUESTIONS) : Has(session.answers, QUESTIONS[i].id)

\* The last run was one in which "Complete Assessment" was pressed on
\* complete answers.
CompletePressed ==
    /\ pc = "app"
    /\ AllAnswered
    /\ session.shown \in {"Prediction failed", "Models could not be loaded", "results"}

\* C28 as claimed: when the models load and every one of the 16 questions
\* has been answered with an option of its widget, pressing "Complete
\* Assessment" on the last question makes prediction_complete true and
\* stores a prediction_result, so that the next run shows the results page.
C28_CompleteStoresResult ==
    (CompletePressed /\ predictor # None /\ preprocessor # None) =>
        /\ session.prediction_complete
        /\ session.prediction_result # None
        /\ session.shown = "results"

\* C29: whatever buttons are pressed, current_question stays inside
\* 0..len(QUESTIONS)-1: "Previous" is not applied at 0 and "Next" is not
\* applied at the last index.
C29_CurrentQuestionInRange ==
    pc = "app" =>
        /\ session.current_question \in 0..(Len(QUESTIONS) - 1)
        /\ Len(QUESTIONS) = 16

C29_Witness ==
    /\ pc = "app"
    /\ session.current_question = Len(QUESTIONS) - 1
    /\ AllAnswered
    /\ session.shown = "Prediction failed"

\* C30: in every state of a session prediction_complete is true exactly
\* when a prediction_result is stored; a run of "Complete Assessment" in
\* which make_prediction returns None leaves prediction_complete false and
\* stores nothing.
C30_CompleteIffResultStored ==
    pc = "app" =>
        /\ session.prediction_complete <=> session.prediction_result # None
        /\ session.shown \in {"Prediction failed", "Models could not be loaded",
                              "Please answer all questions"} =>
              /\ ~session.prediction_complete
              /\ session.prediction_result = None

C30_Witness ==
    /\ pc = "app"
    /\ session.shown = "Models could not be loaded"
    /\ predictor = None
    /\ AllAnswered
    /\ ~session.prediction_complete
    /\ session.prediction_result = None

====
